---- MODULE Spec2Model ----
(***************************************************************************)
(* Journal Monitor (Obsidian plugin): the sync engine (main.ts), the       *)
(* browse and discovery views, the filter/sort engine and the filter       *)
(* fingerprint (utils.ts), and the date-range helper (api.ts).             *)
(*                                                                         *)
(* Strings that the code inspects character by character (keywords,        *)
(* titles, ISSNs, the JSON text that is hashed) are sequences of UTF-16    *)
(* code units.  Calendar dates are day ordinals counted from 2025-01-01;   *)
(* DateStr renders an ordinal as the code's 'YYYY-MM-DD' text.             *)
(***************************************************************************)
EXTENDS Integers, Sequences, FiniteSets, TLC

\* ------------------------------------------------------------------------
\* Bounds of the model
\* ------------------------------------------------------------------------
MaxTime == 2
MaxFetch == 2
MaxPasses == 1
MaxClears == 1
MaxPending == 1
MaxCount == 2

\* ------------------------------------------------------------------------
\* Strings as sequences of code units
\* ------------------------------------------------------------------------
\* the value of an absent (undefined) string-valued field
NoStr == <<-1>>
\* the value of an absent (undefined) timestamp or date
NoTime == -1

\* the code units of the string literals of the source
Chars(s) ==
  CASE s = "day" -> <<100, 97, 121>>
    [] s = "week" -> <<119, 101, 101, 107>>
    [] s = "month" -> <<109, 111, 110, 116, 104>>
    [] s = "3months" -> <<51, 109, 111, 110, 116, 104, 115>>
    [] s = "custom" -> <<99, 117, 115, 116, 111, 109>>
    [] s = "unseen" -> <<117, 110, 115, 101, 101, 110>>
    [] s = "all" -> <<97, 108, 108>>
    [] s = "viewed" -> <<118, 105, 101, 119, 101, 100>>
    [] s = "saved" -> <<115, 97, 118, 101, 100>>
    [] s = "skipped" -> <<115, 107, 105, 112, 112, 101, 100>>
    [] s = "date-desc" -> <<100, 97, 116, 101, 45, 100, 101, 115, 99>>
    [] s = "date-asc" -> <<100, 97, 116, 101, 45, 97, 115, 99>>
    [] s = "journal" -> <<106, 111, 117, 114, 110, 97, 108>>

\* String.prototype.toLowerCase on ASCII text
LowerCode(c) == IF c >= 65 /\ c <= 90 THEN c + 32 ELSE c

toLowerCase(s) == [i \in 1..Len(s) |-> LowerCode(s[i])]

\* String.prototype.includes: kw occurs in text as a contiguous substring
includes(text, kw) ==
  \E i \in 0..(Len(text) - Len(kw)) :
    \A k \in 1..Len(kw) : text[i + k] = kw[k]

\* a < b in the code-unit order used by Array.prototype.sort() without a
\* comparator, and (as an approximation of the locale order) by localeCompare
RECURSIVE StrLess(_, _)
StrLess(a, b) ==
  IF b = << >> THEN FALSE
  ELSE IF a = << >> THEN TRUE
  ELSE IF Head(a) # Head(b) THEN Head(a) < Head(b)
  ELSE StrLess(Tail(a), Tail(b))

\* Array.prototype.join
RECURSIVE join(_, _)
join(strs, sep) ==
  IF strs = << >> THEN << >>
  ELSE IF Len(strs) = 1 THEN strs[1]
  ELSE strs[1] \o sep \o join(Tail(strs), sep)

\* order[tag] of 'const order = { first: 0, middle: 1, last: 2 }': the
\* number in a one-element sequence, the empty sequence for undefined
PositionOrder(tag) ==
  CASE tag = "first" -> <<0>>
    [] tag = "middle" -> <<1>>
    [] tag = "last" -> <<2>>
    [] OTHER -> << >>

\* value || fallback on an optional number: undefined and 0 are falsy
OrElse(value, fallback) ==
  IF value = << >> THEN fallback
  ELSE IF value[1] = 0 THEN fallback
  ELSE value[1]

\* the comparators the code sorts with: a goes before b
\*   "code-units": Array.prototype.sort() without comparator, on strings
\*   "date-desc", "date-asc": new Date(date).getTime() of the two articles
\*   "journal": a.journal.localeCompare(b.journal)
\*   "position": (order[a.author_position] || 1) - (order[b.author_position] || 1)
\*   "word-position": a[1] - b[1] on [word, position] pairs
Before(order, a, b) ==
  CASE order = "code-units" -> StrLess(a, b)
    [] order = "position" ->
         OrElse(PositionOrder(a.author_position), 1)
           < OrElse(PositionOrder(b.author_position), 1)
    [] order = "word-position" -> a[2] < b[2]
    [] order = "date-desc" -> b.date < a.date
    [] order = "date-asc" -> a.date < b.date
    [] order = "journal" -> StrLess(a.journal, b.journal)

\* a variant that inserts x in front of the first element that does not go
\* before x, ahead of the elements it compares equal to
InsertSorted_Ahead(x, t, order) ==
  LET notBefore == {i \in 1..Len(t) : ~Before(order, t[i], x)}
      k == IF notBefore = {} THEN Len(t) + 1
           ELSE CHOOSE i \in notBefore : \A j \in notBefore : i <= j
  IN SubSeq(t, 1, k - 1) \o <<x>> \o SubSeq(t, k, Len(t))

\* insertion of x into the sorted sequence t, in front of the first element
\* that goes after x (Array.prototype.sort is stable)
InsertSorted(x, t, order) ==
  LET after == {i \in 1..Len(t) : Before(order, x, t[i])}
      k == IF after = {} THEN Len(t) + 1
           ELSE CHOOSE i \in after : \A j \in after : i <= j
  IN SubSeq(t, 1, k - 1) \o <<x>> \o SubSeq(t, k, Len(t))

\* variant: the array is left in the order it came in
SortBy_Keep(s, order) == s

\* Array.prototype.sort under the given comparator: a stable sort
SortBy(s, order) ==
  LET sorted[i \in 0..Len(s)] ==
        IF i = 0 THEN << >>
        ELSE CHOOSE r \in {InsertSorted(s[i], t, order) : t \in {sorted[i - 1]}} : TRUE
  IN sorted[Len(s)]

Range(s) == {s[i] : i \in 1..Len(s)}

\* ------------------------------------------------------------------------
\* The helpers of the OpenAlex adapter
\* ------------------------------------------------------------------------
\* An optional value is a record [present, value].
Absent == [present |-> FALSE, value |-> << >>]
Present(v) == [present |-> TRUE, value |-> v]

\* formatOpenAlexAuthors: the display names after the sort by position tag
formatOpenAlexAuthors(authorships) ==
  LET sorted == SortBy(authorships, "position")
  IN [i \in 1..Len(sorted) |-> sorted[i].display_name]

\* list.filter(x => x.score > 0.3).slice(0, 8).map(x => x.display_name);
\* scores are in tenths
TopNames(list) ==
  LET kept == SelectSeq(list, LAMBDA x : x.score > 3)
      cut == SubSeq(kept, 1, IF Len(kept) < 8 THEN Len(kept) ELSE 8)
  IN [i \in 1..Len(cut) |-> cut[i].display_name]

\* const keywords = work.concepts?.…  || work.topics?.…  ||
\* work.keywords?.map(k => k.keyword) || []: an optional chain on an absent
\* list gives undefined, on a present list an array, and every array is
\* truthy
ExtractKeywords(work) ==
  IF work.concepts.present THEN TopNames(work.concepts.value)
  ELSE IF work.topics.present THEN TopNames(work.topics.value)
  ELSE IF work.keywords.present THEN work.keywords.value
  ELSE << >>

\* the [word, position] pairs of an inverted index, in the order of
\* Object.entries and of each word's positions
RECURSIVE IndexWords(_)
IndexWords(entries) ==
  IF entries = << >> THEN << >>
  ELSE [i \in 1..Len(entries[1].positions) |->
          <<entries[1].word, entries[1].positions[i]>>]
         \o IndexWords(Tail(entries))

\* reconstructAbstract: NoStr for undefined, else the words joined by
\* blanks in the order of their positions
reconstructAbstract(invertedIndex) ==
  IF ~invertedIndex.present THEN NoStr
  ELSE LET words == SortBy(IndexWords(invertedIndex.value), "word-position")
       IN join([i \in 1..Len(words) |-> words[i][1]], <<32>>)

\* ------------------------------------------------------------------------
\* Calendar: day ordinals from 2025-01-01 (2025 and 2026 are not leap years)
\* ------------------------------------------------------------------------
EpochYear == 2025

DaysInMonth == <<31, 28, 31, 30, 31, 30, 31, 31, 30, 31, 30, 31>>

\* the ordinal of the first day of month mi, months counted from January
\* 2025 = 0
RECURSIVE MonthStart(_)
MonthStart(mi) ==
  IF mi = 0 THEN 0 ELSE MonthStart(mi - 1) + DaysInMonth[((mi - 1) % 12) + 1]

\* the month index of a day ordinal
RECURSIVE MonthOf(_, _)
MonthOf(ord, mi) ==
  IF ord < MonthStart(mi + 1) THEN mi ELSE MonthOf(ord, mi + 1)

\* decimal digits of n, zero-padded to width w
RECURSIVE Digits(_, _)
Digits(n, w) ==
  IF w = 0 THEN << >> ELSE Digits(n \div 10, w - 1) \o <<48 + (n % 10)>>

\* Date.prototype.toISOString().split('T')[0]: 'YYYY-MM-DD'
DateStr(ord) ==
  LET mi == MonthOf(ord, 0)
  IN Digits(EpochYear + (mi \div 12), 4) \o <<45>>
       \o Digits((mi % 12) + 1, 2) \o <<45>>
       \o Digits(ord - MonthStart(mi) + 1, 2)

\* Date.prototype.setDate(getDate() - n)
DaysAgo(ord, n) == ord - n

\* Date.prototype.setMonth(getMonth() - n): the same day number in the
\* earlier month; a day number past that month's end runs into the next
MonthsAgo(ord, n) ==
  LET mi == MonthOf(ord, 0)
  IN MonthStart(mi - n) + (ord - MonthStart(mi))

\* getDateRange: the window a date-range option stands for on day today
getDateRange(range, customFrom, customTo, today) ==
  CASE range = "day" -> [from |-> DaysAgo(today, 1), to |-> today]
    [] range = "week" -> [from |-> DaysAgo(today, 7), to |-> today]
    [] range = "month" -> [from |-> MonthsAgo(today, 1), to |-> today]
    [] range = "3months" -> [from |-> MonthsAgo(today, 3), to |-> today]
    [] range = "custom" ->
         [from |-> IF customFrom # NoTime THEN customFrom ELSE today,
          to |-> IF customTo # NoTime THEN customTo ELSE today]
    [] OTHER -> [from |-> MonthsAgo(today, 1), to |-> today]

\* ------------------------------------------------------------------------
\* hashFilterConfig
\* ------------------------------------------------------------------------
\* JSON.stringify of a string without characters that need escaping
JsonStr(s) == <<34>> \o s \o <<34>>

\* JSON.stringify of an array of such strings
JsonStrArray(strs) ==
  <<91>> \o join([i \in 1..Len(strs) |-> JsonStr(strs[i])], <<44>>) \o <<93>>

\* JSON.stringify of the object literal built by hashFilterConfig; a
\* property whose value is undefined is left out
FilterJson(filter) ==
  <<123, 34, 100, 97, 116, 101, 82, 97, 110, 103, 101, 34, 58>>
    \o JsonStr(Chars(filter.dateRange))
    \o (IF filter.customDateFrom = NoTime THEN << >>
        ELSE <<44, 34, 99, 117, 115, 116, 111, 109, 68, 97, 116, 101, 70,
               114, 111, 109, 34, 58>> \o JsonStr(DateStr(filter.customDateFrom)))
    \o (IF filter.customDateTo = NoTime THEN << >>
        ELSE <<44, 34, 99, 117, 115, 116, 111, 109, 68, 97, 116, 101, 84,
               111, 34, 58>> \o JsonStr(DateStr(filter.customDateTo)))
    \o <<44, 34, 106, 111, 117, 114, 110, 97, 108, 115, 34, 58>>
    \o JsonStrArray(SortBy(filter.journals, "code-units"))
    \o <<44, 34, 107, 101, 121, 119, 111, 114, 100, 115, 34, 58>>
    \o JsonStrArray(SortBy(filter.keywords, "code-units"))
    \o <<44, 34, 115, 104, 111, 119, 83, 116, 97, 116, 101, 34, 58>>
    \o JsonStr(Chars(filter.showState))
    \o <<44, 34, 115, 111, 114, 116, 66, 121, 34, 58>>
    \o JsonStr(Chars(filter.sortBy))
    \o <<125>>

\* one round of 'hash = ((hash << 5) - hash) + char; hash = hash & hash':
\* hash * 31 + char modulo 2^32, on a 32-bit word kept as two 16-bit halves
HashStep(h, c) ==
  LET t == h[2] * 31 + c
  IN <<(h[1] * 31 + (t \div 65536)) % 65536, t % 65536>>

\* the rounds for the code units from..to of str, in order, starting from
\* hash; the range is halved so that the evaluation stays shallow
RECURSIVE HashLoop(_, _, _, _)
HashLoop(hash, str, from, to) ==
  IF from > to THEN hash
  ELSE IF from = to THEN HashStep(hash, str[from])
  ELSE LET mid == (from + to) \div 2
       IN CHOOSE w \in {HashLoop(h, str, mid + 1, to) :
                           h \in {HashLoop(hash, str, from, mid)}} : TRUE

\* the loop over the code units of str, from hash = 0
Hash32(str) ==
  CHOOSE w \in {HashLoop(<<0, 0>>, s, 1, Len(s)) : s \in {str}} : TRUE

\* the 32-bit word divided by 36: <<quotient word, remainder>>
DivMod36(w) ==
  LET t == (w[1] % 36) * 65536 + w[2]
  IN <<(<<w[1] \div 36, t \div 36>>), t % 36>>

Digit36(d) == IF d < 10 THEN 48 + d ELSE 87 + d

RECURSIVE Base36(_)
Base36(w) ==
  LET qr == DivMod36(w)
  IN IF qr[1] = <<0, 0>> THEN <<Digit36(qr[2])>>
     ELSE Base36(qr[1]) \o <<Digit36(qr[2])>>

\* the magnitude of the word read as a signed 32-bit integer
Negate32(w) ==
  IF w[2] = 0 THEN <<(65536 - w[1]) % 65536, 0>>
  ELSE <<65535 - w[1], 65536 - w[2]>>

\* Number.prototype.toString(36) of a signed 32-bit integer
toString36(w) ==
  IF w[1] >= 32768 THEN <<45>> \o Base36(Negate32(w)) ELSE Base36(w)

hashFilterConfig(filter) == toString36(Hash32(FilterJson(filter)))

\* the filter as hashFilterConfig leaves it: journals and keywords are
\* sorted in place
SortedInPlace(filter) ==
  [filter EXCEPT !.journals = SortBy(filter.journals, "code-units"),
                 !.keywords = SortBy(filter.keywords, "code-units")]

\* ------------------------------------------------------------------------
\* filterArticles
\* ------------------------------------------------------------------------
\* a variant that searches the title whatever the scope
SearchText_Title(a, filter) == toLowerCase(a.title)

\* the text a keyword is searched in
SearchText(a, filter) ==
  IF filter.searchInAbstracts
    THEN toLowerCase(a.title \o <<32>>
           \o (IF a.abstract = NoStr THEN << >> ELSE a.abstract) \o <<32>>
           \o join(a.keywords, <<32>>))
    ELSE toLowerCase(a.title)

\* a variant that ignores the filter's own journal list
EffectiveIssns_All(filter, allJournals) == allJournals

\* const enabledIssns: the filter's journals when it names any, else the
\* ISSNs of allJournals
EffectiveIssns(filter, allJournals) ==
  IF Len(filter.journals) > 0 THEN filter.journals ELSE allJournals

\* filterArticles(articles, filter, allJournals): articles is the sequence
\* of article records, allJournals the sequence of enabled ISSNs
filterArticles(articles, filter, allJournals) ==
  LET StateOk(a) == filter.showState = "all" \/ a.state = filter.showState
      enabledIssns == EffectiveIssns(filter, allJournals)
      JournalOk(a) == a.journalIssn \in Range(enabledIssns)
      lowerKeywords == [i \in 1..Len(filter.keywords) |->
                          toLowerCase(filter.keywords[i])]
      KeywordOk(a) ==
        Len(filter.keywords) > 0 =>
          \E i \in 1..Len(lowerKeywords) :
            includes(SearchText(a, filter), lowerKeywords[i])
      Keep(a) == StateOk(a) /\ JournalOk(a) /\ KeywordOk(a)
      filtered == SelectSeq(articles, Keep)
  IN IF filter.sortBy \in {"date-desc", "date-asc", "journal"}
       THEN SortBy(filtered, filter.sortBy)
       ELSE filtered

\* ------------------------------------------------------------------------
\* The plugin's world: journals, upstream works, article objects
\* ------------------------------------------------------------------------
\* settings.journals: two enabled subscriptions and a disabled one
Journals ==
  << [name |-> <<66>>, issn |-> <<74, 49>>, enabled |-> TRUE],
     [name |-> <<65>>, issn |-> <<74, 50>>, enabled |-> TRUE],
     [name |-> <<67>>, issn |-> <<74, 51>>, enabled |-> FALSE] >>

\* settings.journals.filter(j => j.enabled)
EnabledJournals == SelectSeq(Journals, LAMBDA j : j.enabled)

EnabledIssns == [i \in 1..Len(EnabledJournals) |-> EnabledJournals[i].issn]

\* the identifiers the upstream sources know
Dois == {"d1", "d2", "d3", "d4"}

\* a work without a DOI
NoDoi == "none"

\* the metadata the upstream sources hold for an identifier
TitleOf(doi) ==
  CASE doi = "d1" -> <<70, 111>>
    [] doi = "d2" -> <<76, 105>>
    [] OTHER -> <<70, 111, 50>>

AbstractOf(doi) == <<108, 105>>

\* whether the concept-graph source has an abstract for the identifier
HasAbstract(doi) == doi = "d1"

DateOf(doi) ==
  CASE doi = "d1" -> 300
    [] doi = "d2" -> 310
    [] OTHER -> 310

\* the location saveArticleNote writes the note of an article to
PathOf(doi) ==
  CASE doi = "d1" -> "notes/d1.md"
    [] doi = "d2" -> "notes/d2.md"
    [] doi = "d3" -> "notes/d3.md"
    [] OTHER -> "notes/d4.md"

NoPath == ""

\* the records an adapter request can return: a page of works, each with or
\* without a DOI
Works == {[doi |-> d, hasAbstract |-> HasAbstract(d)] : d \in {"d1", "d2", NoDoi}}

Pages == UNION {[1..n -> Works] : n \in 0..MaxFetch}

\* what a request ends with: a page of works, or a network or HTTP error
Responses ==
  {[ok |-> FALSE, works |-> << >>]} \cup {[ok |-> TRUE, works |-> pg] : pg \in Pages}

\* work.doi.replace('https://doi.org/', ''): that exact prefix is cut off,
\* any other text is kept as it is
StripResolver(doi) ==
  CASE doi = "https://doi.org/d1" -> "d1"
    [] doi = "https://doi.org/D1" -> "D1"
    [] OTHER -> doi

\* openAlexToArticle: null for a work without DOI, else the Article built
\* at time t for the journal with this name and ISSN
openAlexToArticle(work, journalName, journalIssn, t) ==
  [doi |-> StripResolver(work.doi),
   title |-> TitleOf(work.doi),
   abstract |-> IF work.hasAbstract THEN AbstractOf(work.doi) ELSE NoStr,
   keywords |-> << >>,
   journal |-> journalName,
   journalIssn |-> journalIssn,
   date |-> DateOf(work.doi),
   state |-> "unseen",
   fetchedAt |-> t,
   viewedAt |-> NoTime,
   savedAt |-> NoTime,
   savedPath |-> NoPath]

\* crossRefToArticle: the same shape from a CrossRef work
crossRefToArticle(work, journalName, journalIssn, t) ==
  [doi |-> work.doi,
   title |-> TitleOf(work.doi),
   abstract |-> IF work.hasAbstract THEN AbstractOf(work.doi) ELSE NoStr,
   keywords |-> << >>,
   journal |-> journalName,
   journalIssn |-> journalIssn,
   date |-> DateOf(work.doi),
   state |-> "unseen",
   fetchedAt |-> t,
   viewedAt |-> NoTime,
   savedAt |-> NoTime,
   savedPath |-> NoPath]

\* fetchFromOpenAlex / fetchFromCrossRef: the Articles of a response, the
\* works without DOI dropped; a failed request yields the empty list
FetchResult(provider, journal, response, t) ==
  IF ~response.ok THEN << >>
  ELSE LET withDoi == SelectSeq(response.works, LAMBDA w : w.doi # NoDoi)
       IN [i \in 1..Len(withDoi) |->
             IF provider = "openalex"
               THEN openAlexToArticle(withDoi[i], journal.name, journal.issn, t)
               ELSE crossRefToArticle(withDoi[i], journal.name, journal.issn, t)]

\* Article objects live on a heap; data.articles, the browse view's list,
\* the discovery results and the backfill batch hold references to them
NumRefs == 8

Refs == 1..NumRefs

Free == [doi |-> NoDoi]

\* data.statistics of DEFAULT_DATA and of the cache clear
EmptyStatistics ==
  [totalFetched |-> 0, totalSaved |-> 0, totalSkipped |-> 0, byJournal |-> << >>]

ZeroCounters == [fetched |-> 0, saved |-> 0, skipped |-> 0]

\* a variant that creates the entry of issn anew at every increment
Incremented_Fresh(byJournal, issn, field) ==
  [k \in DOMAIN byJournal \cup {issn} |->
     IF k = issn THEN [ZeroCounters EXCEPT ![field] = 1] ELSE byJournal[k]]

\* byJournal with the entry of issn created when missing and its counter
\* field incremented
Incremented(byJournal, issn, field) ==
  LET cur == IF issn \in DOMAIN byJournal THEN byJournal[issn] ELSE ZeroCounters
      new == [cur EXCEPT ![field] = @ + 1]
  IN [k \in DOMAIN byJournal \cup {issn} |->
        IF k = issn THEN new ELSE byJournal[k]]

\* data.browsePosition of DEFAULT_DATA and of the cache clear
EmptyBrowsePosition == [currentDoi |-> NoDoi, filterHash |-> << >>, scrollIndex |-> 0]

\* settings.currentFilter of DEFAULT_SETTINGS
DefaultFilter ==
  [dateRange |-> "month", customDateFrom |-> NoTime, customDateTo |-> NoTime,
   journals |-> << >>, keywords |-> << >>, searchInAbstracts |-> TRUE,
   showState |-> "unseen", sortBy |-> "date-desc"]

VARIABLES
  now,            \* the clock read by new Date()
  heap,           \* Refs -> Article object, or Free
  articles,       \* data.articles: the references, in key insertion order
  statistics,     \* data.statistics
  lastFetch,      \* data.lastFetch
  browsePosition, \* data.browsePosition
  settings,       \* settings.apiProvider and settings.currentFilter
  pass,           \* the fetchArticles calls in progress
  view,           \* the BrowseView: open, articles, currentIndex
  saving,         \* saveArticle calls awaiting saveArticleNote
  results,        \* DiscoveryView.results
  insertedBy,     \* history: what each pass inserted, <<doi, issn>>
  handedBy,       \* history: the identifiers each pass gave to backfillAbstracts
  fetchedOk,      \* history: the journals each pass got a response from
  used,           \* history: the passes started and the cache clears so far
  presented,      \* history: the identifiers that have been the current card
  lastClose,      \* history: the view's list and index when it was last closed
  disk,           \* the object the last saveData call wrote
  written,        \* history: settings and data in memory at that call
  pure,           \* the inputs and results of the pure-function checks
  modal           \* the FilterModal: open, its filter, the checkboxes

vars == <<now, heap, articles, statistics, lastFetch, browsePosition, settings,
          pass, view, saving, results, insertedBy, handedBy, fetchedOk, used,
          presented, lastClose,
          disk, written, pure, modal>>

\* ------------------------------------------------------------------------
\* The heap
\* ------------------------------------------------------------------------
\* the objects something still refers to
RootsOf(arts, ps, v, sv, res) ==
  Range(arts) \cup Range(v.articles) \cup {sv[i].article : i \in 1..Len(sv)}
    \cup {res[i].article : i \in 1..Len(res)}
    \cup UNION {Range(ps[p].missing) : p \in DOMAIN ps}

\* the heap with the objects nothing refers to any more released
Collect(h, roots) == [r \in Refs |-> IF r \in roots THEN h[r] ELSE Free]

\* the reference a new object gets
FreeRef(h) == CHOOSE r \in Refs : h[r] = Free /\ \A q \in Refs : h[q] = Free => r <= q

\* data.articles[doi]: the reference stored under the key, 0 when absent
Lookup(h, arts, doi) ==
  IF \E i \in 1..Len(arts) : h[arts[i]].doi = doi
    THEN arts[CHOOSE i \in 1..Len(arts) : h[arts[i]].doi = doi]
    ELSE 0

\* a variant that assigns a collection holding this key alone
Store_Alone(h, arts, doi, ref) == <<ref>>

\* data.articles[doi] = ref: a new key is appended, an existing key keeps
\* its place
Store(h, arts, doi, ref) ==
  IF \E i \in 1..Len(arts) : h[arts[i]].doi = doi
    THEN [i \in 1..Len(arts) |-> IF h[arts[i]].doi = doi THEN ref ELSE arts[i]]
    ELSE Append(arts, ref)

\* Object.values(data.articles) as article records
Values(h, arts) == [i \in 1..Len(arts) |-> h[arts[i]]]

\* ------------------------------------------------------------------------
\* loadData / saveData
\* ------------------------------------------------------------------------
\* this.data: the collection in key order, the statistics, the time of the
\* last fetch and the browse position
Data ==
  [articles |-> Values(heap, articles), statistics |-> statistics,
   lastFetch |-> lastFetch, browsePosition |-> browsePosition]

\* the settings and data held in memory
Memory == [settings |-> settings, data |-> Data]

\* what is in DEFAULT_SETTINGS and DEFAULT_DATA
DefaultSettings == [apiProvider |-> "openalex", currentFilter |-> DefaultFilter]

DefaultData ==
  [articles |-> << >>, statistics |-> EmptyStatistics,
   lastFetch |-> NoTime, browsePosition |-> EmptyBrowsePosition]

\* loadSettings: Object.assign({}, DEFAULT_SETTINGS, loaded?.settings || {})
loadSettings(loaded) ==
  IF "settings" \in DOMAIN loaded THEN loaded.settings ELSE DefaultSettings

\* loadPluginData: Object.assign({}, DEFAULT_DATA, loaded?.data || {})
loadPluginData(loaded) ==
  IF "data" \in DOMAIN loaded THEN loaded.data ELSE DefaultData

\* savePluginData and saveSettings: saveData({settings, data}) at the end of
\* the handler
savePluginData ==
  /\ disk' = [settings |-> settings', data |-> Data']
  /\ written' = Memory'

\* the same call when done says it is made and the store accepts it
savePluginDataIf(done) ==
  IF done THEN savePluginData
  ELSE /\ disk' = disk
       /\ written' = written

\* the cache clear's saveData(this.plugin.data): the data object itself
saveDataObject ==
  /\ disk' = Data'
  /\ written' = Memory'

\* ------------------------------------------------------------------------
\* fetchArticles
\* ------------------------------------------------------------------------
\* no FilterModal is open.  shared: the modal's filter.journals is the
\* array that settings.currentFilter.journals refers to
ClosedModal ==
  [open |-> FALSE, filter |-> DefaultFilter, shared |-> FALSE,
   boxes |-> [k \in Range(EnabledIssns) |-> FALSE]]

\* ------------------------------------------------------------------------
\* the triggers of fetchArticles: the startup timer and the command
Triggers == {"startup", "command"}

IdlePass ==
  [pc |-> "idle", journals |-> << >>, idx |-> 0, newArticleCount |-> 0,
   totalFetched |-> 0, missing |-> << >>, bfIdx |-> 0, filled |-> 0]

\* a merge that stores every fetched article, known or not
MergeOne_Overwrite(acc, a, issn) ==
  LET known == Lookup(acc.heap, acc.articles, a.doi)
      r == IF known # 0 THEN known ELSE FreeRef(acc.heap)
  IN [heap |-> [acc.heap EXCEPT ![r] = a],
      articles |-> Store(acc.heap, acc.articles, a.doi, r),
      byJournal |-> IF known # 0 THEN acc.byJournal
                    ELSE Incremented(acc.byJournal, issn, "fetched"),
      count |-> IF known # 0 THEN acc.count ELSE acc.count + 1,
      ins |-> IF known # 0 THEN acc.ins
              ELSE acc.ins \cup {[doi |-> a.doi, issn |-> issn,
                                  hasAbstract |-> a.abstract # NoStr]}]

\* a merge that counts every fetched article in the journal's counter
MergeOne_CountAll(acc, a, issn) ==
  IF Lookup(acc.heap, acc.articles, a.doi) # 0
    THEN [acc EXCEPT !.byJournal = Incremented(acc.byJournal, issn, "fetched")]
  ELSE LET r == FreeRef(acc.heap)
       IN [heap |-> [acc.heap EXCEPT ![r] = a],
           articles |-> Append(acc.articles, r),
           byJournal |-> Incremented(acc.byJournal, issn, "fetched"),
           count |-> acc.count + 1,
           ins |-> acc.ins \cup
                     {[doi |-> a.doi, issn |-> issn,
                       hasAbstract |-> a.abstract # NoStr]}]

\* a merge without the test for a known DOI
MergeOne_Blind(acc, a, issn) ==
  LET r == FreeRef(acc.heap)
  IN [heap |-> [acc.heap EXCEPT ![r] = a],
      articles |-> Append(acc.articles, r),
      byJournal |-> Incremented(acc.byJournal, issn, "fetched"),
      count |-> acc.count + 1,
      ins |-> acc.ins \cup
                {[doi |-> a.doi, issn |-> issn,
                  hasAbstract |-> a.abstract # NoStr]}]

\* the insertion of one fetched article unless its DOI is already a key
MergeOne(acc, a, issn) ==
  IF Lookup(acc.heap, acc.articles, a.doi) # 0 THEN acc
  ELSE LET r == FreeRef(acc.heap)
       IN [heap |-> [acc.heap EXCEPT ![r] = a],
           articles |-> Append(acc.articles, r),
           byJournal |-> Incremented(acc.byJournal, issn, "fetched"),
           count |-> acc.count + 1,
           ins |-> acc.ins \cup
                     {[doi |-> a.doi, issn |-> issn,
                       hasAbstract |-> a.abstract # NoStr]}]

\* the loop 'for (const article of articles)' of fetchArticles
MergeArticles(acc, fetched, issn) ==
  LET merged[i \in 0..Len(fetched)] ==
        IF i = 0 THEN acc
        ELSE CHOOSE m \in {MergeOne(prev, fetched[i], issn) : prev \in {merged[i - 1]}} : TRUE
  IN merged[Len(fetched)]

\* a loop that a failed request ends
NextJournal_Abort(me, response) ==
  IF response.ok THEN me.idx + 1 ELSE Len(me.journals) + 1

\* the journal the loop 'for (const journal of enabledJournals)' goes on
\* with after the try/catch around the request for the current one
NextJournal(me, response) == me.idx + 1

\* fetchArticles up to its first await
FetchStart(p) ==
  /\ pass[p].pc \in {"idle", "done"}
  /\ used.passes < MaxPasses
  /\ used' = [used EXCEPT !.passes = @ + 1]
  /\ Len(EnabledJournals) > 0
  /\ pass' = [pass EXCEPT ![p] = [IdlePass EXCEPT !.pc = "fetch",
                                                   !.journals = EnabledJournals,
                                                   !.idx = 1]]
  /\ insertedBy' = [insertedBy EXCEPT ![p] = {}]
  /\ handedBy' = [handedBy EXCEPT ![p] = {}]
  /\ fetchedOk' = [fetchedOk EXCEPT ![p] = << >>]
  /\ UNCHANGED <<now, heap, articles, statistics, lastFetch, browsePosition,
                 settings, view, saving, results, presented, lastClose, disk,
                 written, pure, modal>>

\* the adapter's request for the current journal completes with response
\* (a page of works, or an error); the loop body runs, and after the last
\* journal the code up to the next await.  dt is the time that passes
\* between the conversion of the last response and the reading of the clock
\* for lastFetch.
FetchJournal(p, response, dt) ==
  /\ pass[p].pc = "fetch"
  /\ LET me == pass[p]
         journal == me.journals[me.idx]
         fetched == FetchResult(settings.apiProvider, journal, response, now)
         m == MergeArticles([heap |-> heap, articles |-> articles,
                             byJournal |-> statistics.byJournal,
                             count |-> 0, ins |-> {}],
                            fetched, journal.issn)
         count == me.newArticleCount + m.count
         next == NextJournal(me, response)
         last == next > Len(me.journals)
         newArticles == SelectSeq(m.articles,
                          LAMBDA r : m.heap[r].abstract = NoStr
                                     /\ m.heap[r].fetchedAt = now + dt)
         backfill == count > 0 /\ settings.apiProvider = "openalex"
                     /\ Len(newArticles) > 0
     IN /\ now + dt <= MaxTime
        /\ ~last => dt = 0
        /\ now' = now + dt
        /\ articles' = m.articles
        /\ insertedBy' = [insertedBy EXCEPT ![p] = @ \cup m.ins]
        /\ fetchedOk' = [fetchedOk EXCEPT ![p] =
                           Append(@, [issn |-> journal.issn, ok |-> response.ok])]
        /\ IF last
             THEN /\ lastFetch' = now + dt
                  /\ statistics' = [statistics EXCEPT !.byJournal = m.byJournal,
                                                      !.totalFetched = @ + count]
                  /\ pass' = [pass EXCEPT ![p] =
                       [me EXCEPT !.newArticleCount = count,
                                  !.totalFetched = @ + Len(fetched),
                                  !.idx = next,
                                  !.pc = IF backfill THEN "backfill" ELSE "save",
                                  !.missing = IF backfill THEN newArticles ELSE << >>,
                                  !.bfIdx = 1]]
                  /\ handedBy' = [handedBy EXCEPT ![p] =
                       IF backfill THEN {m.heap[r].doi : r \in Range(newArticles)}
                       ELSE {}]
             ELSE /\ statistics' = [statistics EXCEPT !.byJournal = m.byJournal]
                  /\ pass' = [pass EXCEPT ![p] =
                       [me EXCEPT !.newArticleCount = count,
                                  !.totalFetched = @ + Len(fetched),
                                  !.idx = next]]
                  /\ UNCHANGED <<lastFetch, handedBy>>
        /\ heap' = Collect(m.heap, RootsOf(articles', pass', view, saving, results))
  /\ UNCHANGED <<browsePosition, settings, view, saving, results, used,
                 presented, lastClose, disk, written, pure, modal>>

\* a variant in which a failed lookup ends the batch
BackfillStep_Abort(p, outcome) ==
  /\ pass[p].pc = "backfill"
  /\ LET me == pass[p]
         r == me.missing[me.bfIdx]
         h2 == IF outcome = "found"
                 THEN [heap EXCEPT ![r].abstract = AbstractOf(heap[r].doi)]
                 ELSE heap
         finished == me.bfIdx = Len(me.missing) \/ outcome = "fail"
     IN /\ pass' = [pass EXCEPT ![p] =
             [me EXCEPT !.filled = IF outcome = "found" THEN @ + 1 ELSE @,
                        !.bfIdx = @ + 1,
                        !.pc = IF finished THEN "save" ELSE "backfill",
                        !.missing = IF finished THEN << >> ELSE @]]
        /\ heap' = Collect(h2, RootsOf(articles, pass', view, saving, results))
  /\ UNCHANGED <<now, articles, statistics, lastFetch, browsePosition,
                 settings, view, saving, results, insertedBy, handedBy,
                 fetchedOk, used, presented, lastClose, disk, written, pure,
                 modal>>

\* backfillAbstracts: the lookup for the next article of the batch
\* completes (found, not found, or failed), then the delay starts
BackfillStep(p, outcome) ==
  /\ pass[p].pc = "backfill"
  /\ LET me == pass[p]
         r == me.missing[me.bfIdx]
         h2 == IF outcome = "found"
                 THEN [heap EXCEPT ![r].abstract = AbstractOf(heap[r].doi)]
                 ELSE heap
         finished == me.bfIdx = Len(me.missing)
     IN /\ pass' = [pass EXCEPT ![p] =
             [me EXCEPT !.filled = IF outcome = "found" THEN @ + 1 ELSE @,
                        !.bfIdx = @ + 1,
                        !.pc = IF finished THEN "save" ELSE "backfill",
                        !.missing = IF finished THEN << >> ELSE @]]
        /\ heap' = Collect(h2, RootsOf(articles, pass', view, saving, results))
  /\ UNCHANGED <<now, articles, statistics, lastFetch, browsePosition,
                 settings, view, saving, results, insertedBy, handedBy,
                 fetchedOk, used, presented, lastClose, disk, written, pure,
                 modal>>

\* 'await this.savePluginData()' and the rest of fetchArticles
FetchFinish(p) ==
  /\ pass[p].pc = "save"
  /\ pass' = [pass EXCEPT ![p].pc = "done"]
  /\ UNCHANGED <<now, heap, articles, statistics, lastFetch, browsePosition,
                 settings, view, saving, results, insertedBy, handedBy,
                 fetchedOk, used, presented, lastClose, pure, modal>>
  /\ savePluginData

\* the 'Clear article cache' button of the settings tab
ClearCache ==
  /\ used.clears < MaxClears
  /\ used' = [used EXCEPT !.clears = @ + 1]
  /\ articles' = << >>
  /\ browsePosition' = EmptyBrowsePosition
  /\ statistics' = EmptyStatistics
  /\ heap' = Collect(heap, RootsOf(articles', pass, view, saving, results))
  /\ UNCHANGED <<now, lastFetch, settings, pass, view, saving, results,
                 insertedBy, handedBy, fetchedOk, presented, lastClose, pure,
                 modal>>
  /\ saveDataObject

\* time passes
Tick ==
  /\ now < MaxTime
  /\ now' = now + 1
  /\ UNCHANGED <<heap, articles, statistics, lastFetch, browsePosition,
                 settings, pass, view, saving, results, insertedBy, handedBy,
                 fetchedOk, used, presented, lastClose, disk, written, pure,
                 modal>>

\* ------------------------------------------------------------------------
\* The data the plugin starts with (loadSettings, loadPluginData)
\* ------------------------------------------------------------------------
\* an article from an earlier session, fetched from the first journal at
\* time 0, in state st
LoadedArticle(doi, st) ==
  [openAlexToArticle([doi |-> doi, hasAbstract |-> TRUE],
                     Journals[1].name, Journals[1].issn, 0)
     EXCEPT !.state = st,
            !.viewedAt = IF st = "unseen" THEN NoTime ELSE 0,
            !.savedAt = IF st = "saved" THEN 0 ELSE NoTime,
            !.savedPath = IF st = "saved" THEN PathOf(doi) ELSE NoPath]

\* data.statistics after that article was fetched and brought to state st
LoadedStatistics(st) ==
  [totalFetched |-> 1,
   totalSaved |-> IF st = "saved" THEN 1 ELSE 0,
   totalSkipped |-> IF st = "skipped" THEN 1 ELSE 0,
   byJournal |-> [k \in {Journals[1].issn} |->
                    [fetched |-> 1,
                     saved |-> IF st = "saved" THEN 1 ELSE 0,
                     skipped |-> IF st = "skipped" THEN 1 ELSE 0]]]

EmptyHeap == [r \in Refs |-> Free]

ClosedView == [open |-> FALSE, articles |-> << >>, currentIndex |-> 0]

\* the plugin after onload: default data, or the data of an earlier session
\* holding one article
InitSync ==
  /\ now = 1
  /\ \E provider \in {"openalex", "crossref"} :
       settings = [apiProvider |-> provider, currentFilter |-> DefaultFilter]
  /\ \/ /\ heap = EmptyHeap
        /\ articles = << >>
        /\ statistics = EmptyStatistics
        /\ lastFetch = NoTime
     \/ \E st \in {"viewed", "saved"} :
          /\ heap = [EmptyHeap EXCEPT ![1] = LoadedArticle("d1", st)]
          /\ articles = <<1>>
          /\ statistics = LoadedStatistics(st)
          /\ lastFetch = 0
  /\ browsePosition = EmptyBrowsePosition
  /\ pass = [p \in {"command"} |-> IdlePass]
  /\ view = ClosedView
  /\ saving = << >>
  /\ results = << >>
  /\ insertedBy = [p \in {"command"} |-> {}]
  /\ handedBy = [p \in {"command"} |-> {}]
  /\ fetchedOk = [p \in {"command"} |-> << >>]
  /\ used = [passes |-> 0, clears |-> 0]
  /\ presented = {}
  /\ lastClose = [articles |-> << >>, currentIndex |-> -1]
  /\ pure = << >>
  /\ modal = ClosedModal
  /\ disk = Memory
  /\ written = Memory

NextSync ==
  \/ \E p \in DOMAIN pass : FetchStart(p)
  \/ \E p \in DOMAIN pass, response \in Responses, dt \in {0, 1} :
       FetchJournal(p, response, dt)
  \/ \E p \in DOMAIN pass, outcome \in {"found", "none", "fail"} : BackfillStep(p, outcome)
  \/ \E p \in DOMAIN pass : FetchFinish(p)
  \/ ClearCache
  \/ Tick

SpecSync == InitSync /\ [][NextSync]_vars

\* ------------------------------------------------------------------------
\* A sync over upstream records that spell one DOI in several ways
\* ------------------------------------------------------------------------
\* the spellings: with the resolver prefix of either source, with the older
\* resolver, bare, and in upper case
Spellings ==
  {"https://doi.org/d1", "https://doi.org/D1", "http://dx.doi.org/d1", "d1", "D1"}

\* pages of one work
SpelledResponses ==
  {[ok |-> TRUE, works |-> <<[doi |-> d, hasAbstract |-> a]>>] :
     d \in Spellings, a \in BOOLEAN}

NextIdentifiers ==
  \/ \E p \in DOMAIN pass : FetchStart(p)
  \/ \E p \in DOMAIN pass, response \in SpelledResponses, dt \in {0, 1} :
       FetchJournal(p, response, dt)
  \/ \E p \in DOMAIN pass, outcome \in {"found", "none", "fail"} : BackfillStep(p, outcome)
  \/ \E p \in DOMAIN pass : FetchFinish(p)

SpecIdentifiers == InitSync /\ [][NextIdentifiers]_vars

\* ------------------------------------------------------------------------
\* Two sync passes at once: the startup timer's and the command's
\* ------------------------------------------------------------------------
\* the plugin while the pass of the startup timer awaits its first request
InitOverlap ==
  /\ now = 1
  /\ settings = [apiProvider |-> "openalex", currentFilter |-> DefaultFilter]
  /\ \/ /\ heap = EmptyHeap
        /\ articles = << >>
        /\ statistics = EmptyStatistics
        /\ lastFetch = NoTime
     \/ /\ heap = [EmptyHeap EXCEPT ![1] = LoadedArticle("d1", "viewed")]
        /\ articles = <<1>>
        /\ statistics = LoadedStatistics("viewed")
        /\ lastFetch = 0
  /\ browsePosition = EmptyBrowsePosition
  /\ pass = [p \in Triggers |->
               IF p = "startup"
                 THEN [IdlePass EXCEPT !.pc = "fetch", !.journals = EnabledJournals,
                                       !.idx = 1]
                 ELSE IdlePass]
  /\ view = ClosedView
  /\ saving = << >>
  /\ results = << >>
  /\ insertedBy = [p \in Triggers |-> {}]
  /\ handedBy = [p \in Triggers |-> {}]
  /\ fetchedOk = [p \in Triggers |-> << >>]
  /\ used = [passes |-> 0, clears |-> 0]
  /\ presented = {}
  /\ lastClose = [articles |-> << >>, currentIndex |-> -1]
  /\ pure = << >>
  /\ modal = ClosedModal
  /\ disk = Memory
  /\ written = Memory

\* the pages a journal answers with
OverlapResponses ==
  {[ok |-> TRUE, works |-> <<[doi |-> "d1", hasAbstract |-> TRUE]>>],
   [ok |-> TRUE, works |-> <<[doi |-> "d1", hasAbstract |-> TRUE],
                              [doi |-> "d2", hasAbstract |-> FALSE]>>],
   [ok |-> FALSE, works |-> << >>]}

NextOverlap ==
  \/ \E p \in DOMAIN pass : FetchStart(p)
  \/ \E p \in DOMAIN pass, response \in OverlapResponses : FetchJournal(p, response, 0)
  \/ \E p \in DOMAIN pass, outcome \in {"found", "none"} : BackfillStep(p, outcome)
  \/ \E p \in DOMAIN pass : FetchFinish(p)

SpecOverlap == InitOverlap /\ [][NextOverlap]_vars

\* ------------------------------------------------------------------------
\* A sync whose pages hold works without abstract
\* ------------------------------------------------------------------------
\* pages of one or two works, none with an abstract
BareResponses ==
  {[ok |-> TRUE, works |-> <<[doi |-> "d1", hasAbstract |-> FALSE],
                              [doi |-> "d2", hasAbstract |-> FALSE]>>],
   [ok |-> TRUE, works |-> <<[doi |-> "d3", hasAbstract |-> FALSE]>>],
   [ok |-> FALSE, works |-> << >>]}

NextBackfill ==
  \/ \E p \in DOMAIN pass : FetchStart(p)
  \/ \E p \in DOMAIN pass, response \in BareResponses, dt \in {0, 1} :
       FetchJournal(p, response, dt)
  \/ \E p \in DOMAIN pass, outcome \in {"found", "none", "fail"} : BackfillStep(p, outcome)
  \/ \E p \in DOMAIN pass : FetchFinish(p)
  \/ Tick

SpecBackfill == InitSync /\ [][NextBackfill]_vars

\* ------------------------------------------------------------------------
\* BrowseView
\* ------------------------------------------------------------------------
\* the article objects filterArticles returns for data.articles
ViewList(h, arts, filter) ==
  LET filtered == filterArticles(Values(h, arts), filter, EnabledIssns)
  IN [i \in 1..Len(filtered) |-> Lookup(h, arts, filtered[i].doi)]

\* the constructor: the filtered list, and the stored position or 0
OpenedView(h, arts, position, filter) ==
  LET list == ViewList(h, arts, filter)
  IN [open |-> TRUE,
      articles |-> list,
      currentIndex |-> IF position.scrollIndex >= Len(list) THEN 0
                       ELSE position.scrollIndex]

\* a variant without the test for the unseen state
markViewed_Always(h, arts, list, index, t) ==
  IF Len(list) = 0 \/ index >= Len(list)
    THEN [heap |-> h, articles |-> arts]
    ELSE LET ref == list[index + 1]
             h2 == [h EXCEPT ![ref].state = "viewed", ![ref].viewedAt = t]
         IN [heap |-> h2, articles |-> Store(h2, arts, h[ref].doi, ref)]

\* markViewed at time t: the heap and data.articles it leaves
markViewed(h, arts, list, index, t) ==
  IF Len(list) = 0 \/ index >= Len(list) \/ h[list[index + 1]].state # "unseen"
    THEN [heap |-> h, articles |-> arts]
    ELSE LET ref == list[index + 1]
             h2 == [h EXCEPT ![ref].state = "viewed", ![ref].viewedAt = t]
         IN [heap |-> h2, articles |-> Store(h2, arts, h[ref].doi, ref)]

\* savePosition: data.browsePosition with the index and the current DOI
savePosition(position, h, list, index) ==
  [position EXCEPT !.scrollIndex = index,
                   !.currentDoi = IF Len(list) = 0 THEN @
                                  ELSE IF index < Len(list) THEN h[list[index + 1]].doi
                                  ELSE NoDoi]

\* articles.splice(index, 1)
Splice(list, index) ==
  SubSeq(list, 1, index) \o SubSeq(list, index + 2, Len(list))

\* a variant that leaves the index where it is
Clamped_Keep(index, list) == index

\* the index after the splice: clamped to the last element, at least 0
Clamped(index, list) ==
  IF index >= Len(list)
    THEN (IF Len(list) - 1 > 0 THEN Len(list) - 1 ELSE 0)
    ELSE index

\* the identifier on the card the view shows
Shown(v, h) ==
  IF v.open /\ v.currentIndex < Len(v.articles)
    THEN {h[v.articles[v.currentIndex + 1]].doi}
    ELSE {}

NoClose == [articles |-> << >>, currentIndex |-> -1]

\* openBrowseView: new BrowseView(...) and onOpen
OpenBrowse ==
  /\ ~view.open
  /\ LET v == OpenedView(heap, articles, browsePosition, settings.currentFilter)
         mv == markViewed(heap, articles, v.articles, v.currentIndex, now)
     IN /\ view' = v
        /\ heap' = mv.heap
        /\ articles' = mv.articles
        /\ presented' = presented \cup Shown(v, heap)
  /\ lastClose' = NoClose
  /\ UNCHANGED <<now, statistics, lastFetch, browsePosition, settings, pass,
                 saving, results, insertedBy, handedBy, fetchedOk, used, pure,
                 modal>>
  /\ savePluginDataIf(heap' # heap)

nextArticle ==
  /\ view.open
  /\ view.currentIndex < Len(view.articles) - 1
  /\ LET index == view.currentIndex + 1
         mv == markViewed(heap, articles, view.articles, index, now)
     IN /\ view' = [view EXCEPT !.currentIndex = index]
        /\ heap' = mv.heap
        /\ articles' = mv.articles
        /\ browsePosition' = savePosition(browsePosition, mv.heap, view.articles, index)
        /\ presented' = presented \cup Shown(view', heap)
  /\ UNCHANGED <<now, statistics, lastFetch, settings, pass, saving, results,
                 insertedBy, handedBy, fetchedOk, used, lastClose, pure, modal>>
  /\ savePluginData

prevArticle ==
  /\ view.open
  /\ view.currentIndex > 0
  /\ LET index == view.currentIndex - 1
         mv == markViewed(heap, articles, view.articles, index, now)
     IN /\ view' = [view EXCEPT !.currentIndex = index]
        /\ heap' = mv.heap
        /\ articles' = mv.articles
        /\ browsePosition' = savePosition(browsePosition, mv.heap, view.articles, index)
        /\ presented' = presented \cup Shown(view', heap)
  /\ UNCHANGED <<now, statistics, lastFetch, settings, pass, saving, results,
                 insertedBy, handedBy, fetchedOk, used, lastClose, pure, modal>>
  /\ savePluginData

\* saveArticle up to the await of saveArticleNote
saveArticle ==
  /\ view.open
  /\ view.currentIndex < Len(view.articles)
  /\ Len(saving) < MaxPending
  /\ saving' = Append(saving, [article |-> view.articles[view.currentIndex + 1],
                               live |-> TRUE])
  /\ UNCHANGED <<now, heap, articles, statistics, lastFetch, browsePosition,
                 settings, pass, view, results, insertedBy, handedBy,
                 fetchedOk, used, presented, lastClose, disk, written, pure,
                 modal>>

\* the counters after saveArticle's continuation saved article a
SavedCounters(stats, a) ==
  [stats EXCEPT !.totalSaved = @ + 1,
                !.byJournal = Incremented(@, a.journalIssn, "saved")]

\* saveArticle from the await on: saveArticleNote returned (ok) or threw
saveArticleResume(i, ok, stored) ==
  /\ i \in 1..Len(saving)
  /\ saving' = SubSeq(saving, 1, i - 1) \o SubSeq(saving, i + 1, Len(saving))
  /\ IF ok
       THEN LET ref == saving[i].article
                doi == heap[ref].doi
                h2 == [heap EXCEPT ![ref].state = "saved",
                                   ![ref].savedAt = now,
                                   ![ref].savedPath = PathOf(doi)]
                arts2 == Store(h2, articles, doi, ref)
                list == Splice(view.articles, view.currentIndex)
                v2 == IF saving[i].live /\ settings.currentFilter.showState = "unseen"
                        THEN [view EXCEPT !.articles = list,
                                          !.currentIndex = Clamped(@, list)]
                        ELSE view
            IN /\ statistics.totalSaved < MaxCount
               /\ statistics' = SavedCounters(statistics, heap[ref])
               /\ articles' = arts2
               /\ view' = v2
               /\ heap' = Collect(h2, RootsOf(arts2, pass, v2, saving', results))
               /\ presented' = presented \cup Shown(v2, h2)
       ELSE /\ heap' = Collect(heap, RootsOf(articles, pass, view, saving', results))
            /\ UNCHANGED <<articles, statistics, view, presented>>
  /\ UNCHANGED <<now, lastFetch, browsePosition, settings, pass, results,
                 insertedBy, handedBy, fetchedOk, used, lastClose, pure, modal>>
  /\ savePluginDataIf(ok /\ stored)

skipArticle(stored) ==
  /\ view.open
  /\ view.currentIndex < Len(view.articles)
  /\ statistics.totalSkipped < MaxCount
  /\ LET ref == view.articles[view.currentIndex + 1]
         doi == heap[ref].doi
         h2 == [heap EXCEPT ![ref].state = "skipped"]
         arts2 == Store(h2, articles, doi, ref)
         unseenOnly == settings.currentFilter.showState = "unseen"
         list == IF unseenOnly THEN Splice(view.articles, view.currentIndex)
                 ELSE view.articles
         index == IF unseenOnly THEN Clamped(view.currentIndex, list)
                  ELSE IF view.currentIndex + 1 >= Len(list) THEN Len(list) - 1
                  ELSE view.currentIndex + 1
         v2 == [view EXCEPT !.articles = list, !.currentIndex = index]
     IN /\ statistics' = [statistics EXCEPT
                            !.totalSkipped = @ + 1,
                            !.byJournal = Incremented(@, heap[ref].journalIssn, "skipped")]
        /\ articles' = arts2
        /\ view' = v2
        /\ browsePosition' = savePosition(browsePosition, h2, list, index)
        /\ heap' = Collect(h2, RootsOf(arts2, pass, v2, saving, results))
        /\ presented' = presented \cup Shown(v2, h2)
  /\ UNCHANGED <<now, lastFetch, settings, pass, saving, results, insertedBy,
                 handedBy, fetchedOk, used, lastClose, pure, modal>>
  /\ savePluginDataIf(stored)

\* close(): onClose saves the position; a save still awaiting its note
\* resumes on a view that is gone
CloseBrowse ==
  /\ view.open
  /\ browsePosition' = savePosition(browsePosition, heap, view.articles, view.currentIndex)
  /\ view' = ClosedView
  /\ saving' = [i \in 1..Len(saving) |-> [saving[i] EXCEPT !.live = FALSE]]
  /\ lastClose' = [articles |-> [i \in 1..Len(view.articles) |-> heap[view.articles[i]].doi],
                   currentIndex |-> view.currentIndex]
  /\ heap' = Collect(heap, RootsOf(articles, pass, view', saving', results))
  /\ UNCHANGED <<now, articles, statistics, lastFetch, settings, pass,
                 results, insertedBy, handedBy, fetchedOk, used, presented,
                 pure, modal>>
  /\ savePluginData

\* the FilterModal's Apply button: the callback of openFilterModal, which
\* ends in openBrowseView
ApplyFilter(showState, sortBy) ==
  /\ ~view.open
  /\ LET filter == SortedInPlace([settings.currentFilter EXCEPT
                                    !.showState = showState, !.sortBy = sortBy])
         position == [browsePosition EXCEPT !.filterHash = hashFilterConfig(filter),
                                            !.scrollIndex = 0]
         v == OpenedView(heap, articles, position, filter)
         mv == markViewed(heap, articles, v.articles, v.currentIndex, now)
     IN /\ settings' = [settings EXCEPT !.currentFilter = filter]
        /\ browsePosition' = position
        /\ view' = v
        /\ heap' = mv.heap
        /\ articles' = mv.articles
        /\ presented' = presented \cup Shown(v, heap)
  /\ lastClose' = NoClose
  /\ UNCHANGED <<now, statistics, lastFetch, pass, saving, results,
                 insertedBy, handedBy, fetchedOk, used, pure, modal>>
  /\ savePluginData

\* ------------------------------------------------------------------------
\* DiscoveryView
\* ------------------------------------------------------------------------
\* the journal that publishes each identifier
JournalOf(doi) == IF doi \in {"d1", "d2"} THEN Journals[1] ELSE Journals[2]

\* The discovery modal is used while the browse modal is closed.
\* performSearch: searchOpenAlex returns a new Article for the work, and
\* renderResults gives it a Save button unless data.articles has it saved
performSearch(doi) ==
  /\ ~view.open
  /\ LET h0 == Collect(heap, RootsOf(articles, pass, view, saving, << >>))
         ref == FreeRef(h0)
         known == Lookup(heap, articles, doi)
     IN /\ heap' = [h0 EXCEPT ![ref] =
                      openAlexToArticle([doi |-> doi, hasAbstract |-> HasAbstract(doi)],
                                        JournalOf(doi).name, JournalOf(doi).issn, now)]
        /\ results' = <<[article |-> ref,
                         button |-> known = 0 \/ heap[known].state # "saved"]>>
  /\ UNCHANGED <<now, articles, statistics, lastFetch, browsePosition,
                 settings, pass, view, saving, insertedBy, handedBy,
                 fetchedOk, used, presented, lastClose, disk, written, pure,
                 modal>>

\* saveResult with saveArticleNote returning the note's path
saveResult(i) ==
  /\ ~view.open
  /\ i \in 1..Len(results)
  /\ results[i].button
  /\ statistics.totalSaved < MaxCount
  /\ LET ref == results[i].article
         doi == heap[ref].doi
         h2 == [heap EXCEPT ![ref].state = "saved",
                            ![ref].savedAt = now,
                            ![ref].savedPath = PathOf(doi)]
         arts2 == Store(h2, articles, doi, ref)
     IN /\ statistics' = [statistics EXCEPT !.totalSaved = @ + 1]
        /\ articles' = arts2
        /\ results' = [results EXCEPT ![i].button = FALSE]
        /\ heap' = Collect(h2, RootsOf(arts2, pass, view, saving, results'))
  /\ UNCHANGED <<now, lastFetch, browsePosition, settings, pass, view, saving,
                 insertedBy, handedBy, fetchedOk, used, presented, lastClose,
                 pure, modal>>
  /\ savePluginData

\* ------------------------------------------------------------------------
\* Browsing a collection that a sync has filled
\* ------------------------------------------------------------------------
\* the articles after one sync at time 0, none of them seen yet
SyncedHeap ==
  [r \in Refs |->
     CASE r = 1 -> openAlexToArticle([doi |-> "d1", hasAbstract |-> TRUE],
                                     Journals[1].name, Journals[1].issn, 0)
       [] r = 2 -> openAlexToArticle([doi |-> "d2", hasAbstract |-> FALSE],
                                     Journals[1].name, Journals[1].issn, 0)
       [] r = 3 -> openAlexToArticle([doi |-> "d3", hasAbstract |-> FALSE],
                                     Journals[2].name, Journals[2].issn, 0)
       [] r = 4 -> openAlexToArticle([doi |-> "d4", hasAbstract |-> FALSE],
                                     Journals[2].name, Journals[2].issn, 0)
       [] OTHER -> Free]

SyncedStatistics ==
  [totalFetched |-> 4, totalSaved |-> 0, totalSkipped |-> 0,
   byJournal |-> [k \in {Journals[1].issn, Journals[2].issn} |->
                    [fetched |-> 2, saved |-> 0, skipped |-> 0]]]

InitBrowse ==
  /\ now = 1
  /\ \E showState \in {"unseen", "all"} :
       settings = [apiProvider |-> "openalex",
                   currentFilter |-> [DefaultFilter EXCEPT !.showState = showState]]
  /\ heap = SyncedHeap
  /\ articles = <<1, 2, 3, 4>>
  /\ statistics = SyncedStatistics
  /\ lastFetch = 0
  /\ browsePosition = EmptyBrowsePosition
  /\ pass = [p \in {"command"} |-> IdlePass]
  /\ view = ClosedView
  /\ saving = << >>
  /\ results = << >>
  /\ insertedBy = [p \in {"command"} |-> {}]
  /\ handedBy = [p \in {"command"} |-> {}]
  /\ fetchedOk = [p \in {"command"} |-> << >>]
  /\ used = [passes |-> 0, clears |-> 0]
  /\ presented = {}
  /\ lastClose = NoClose
  /\ pure = << >>
  /\ modal = ClosedModal
  /\ disk = Memory
  /\ written = Memory

\* the browse modal on its own: navigation, save and skip
NextBrowse ==
  \/ OpenBrowse
  \/ nextArticle
  \/ prevArticle
  \/ saveArticle
  \/ \E i \in 1..MaxPending, ok \in BOOLEAN, stored \in BOOLEAN :
       saveArticleResume(i, ok, stored)
  \/ \E stored \in BOOLEAN : skipArticle(stored)
  \/ CloseBrowse

SpecBrowse == InitBrowse /\ [][NextBrowse]_vars

\* the two ways of saving, the filter modal between them
NextDiscovery ==
  \/ OpenBrowse
  \/ saveArticle
  \/ \E i \in 1..MaxPending, ok \in BOOLEAN : saveArticleResume(i, ok, TRUE)
  \/ CloseBrowse
  \/ \E showState \in {"unseen", "all"}, sortBy \in {"date-desc", "journal"} :
       ApplyFilter(showState, sortBy)
  \/ \E doi \in {"d1"} : performSearch(doi)
  \/ \E i \in 1..Len(results) : saveResult(i)

SpecDiscovery == InitBrowse /\ [][NextDiscovery]_vars

\* ------------------------------------------------------------------------
\* FilterModal
\* ------------------------------------------------------------------------
\* openFilterModal: the constructor's this.filter = { ...currentFilter }
\* copies the fields, so the journals array is shared; onOpen ticks the
\* box of every journal when the list is empty, else of the listed ones
OpenFilterModal ==
  /\ ~modal.open
  /\ ~view.open
  /\ modal' = [open |-> TRUE,
               filter |-> settings.currentFilter,
               shared |-> TRUE,
               boxes |-> [k \in Range(EnabledIssns) |->
                            \/ Len(settings.currentFilter.journals) = 0
                            \/ k \in Range(settings.currentFilter.journals)]]
  /\ UNCHANGED <<now, heap, articles, statistics, lastFetch, browsePosition,
                 settings, pass, view, saving, results, insertedBy, handedBy,
                 fetchedOk, used, presented, lastClose, disk, written, pure>>

\* the change listener of a journal's checkbox: push on the array when
\* the box gets ticked and the ISSN is not listed, a new filtered array
\* when it gets unticked
ToggleJournal(issn) ==
  /\ modal.open
  /\ LET checked == ~modal.boxes[issn]
         listed == issn \in Range(modal.filter.journals)
         pushed == Append(modal.filter.journals, issn)
     IN IF checked /\ ~listed
          THEN /\ modal' = [modal EXCEPT !.boxes[issn] = TRUE,
                                         !.filter.journals = pushed]
               /\ settings' = IF modal.shared
                                THEN [settings EXCEPT !.currentFilter.journals = pushed]
                                ELSE settings
        ELSE IF checked
          THEN /\ modal' = [modal EXCEPT !.boxes[issn] = TRUE]
               /\ settings' = settings
        ELSE /\ modal' = [modal EXCEPT
                            !.boxes[issn] = FALSE,
                            !.filter.journals = SelectSeq(@, LAMBDA i : i # issn),
                            !.shared = FALSE]
             /\ settings' = settings
  /\ UNCHANGED <<now, heap, articles, statistics, lastFetch, browsePosition,
                 pass, view, saving, results, insertedBy, handedBy, fetchedOk,
                 used, presented, lastClose, disk, written, pure>>

\* the 'Select All' button
SelectAllJournals ==
  /\ modal.open
  /\ modal' = [modal EXCEPT !.filter.journals = EnabledIssns,
                            !.shared = FALSE,
                            !.boxes = [k \in Range(EnabledIssns) |-> TRUE]]
  /\ UNCHANGED <<now, heap, articles, statistics, lastFetch, browsePosition,
                 settings, pass, view, saving, results, insertedBy, handedBy,
                 fetchedOk, used, presented, lastClose, disk, written, pure>>

\* the 'None' button
SelectNoJournal ==
  /\ modal.open
  /\ modal' = [modal EXCEPT !.filter.journals = << >>,
                            !.shared = FALSE,
                            !.boxes = [k \in Range(EnabledIssns) |-> FALSE]]
  /\ UNCHANGED <<now, heap, articles, statistics, lastFetch, browsePosition,
                 settings, pass, view, saving, results, insertedBy, handedBy,
                 fetchedOk, used, presented, lastClose, disk, written, pure>>

\* the modal is closed without the Apply button
CloseFilterModal ==
  /\ modal.open
  /\ modal' = ClosedModal
  /\ UNCHANGED <<now, heap, articles, statistics, lastFetch, browsePosition,
                 settings, pass, view, saving, results, insertedBy, handedBy,
                 fetchedOk, used, presented, lastClose, disk, written, pure>>

\* the Apply button: onApply(this.filter), that is the callback of
\* openFilterModal with the modal's filter object, and close()
ApplyFromModal ==
  /\ modal.open
  /\ ~view.open
  /\ LET filter == SortedInPlace(modal.filter)
         position == [browsePosition EXCEPT !.filterHash = hashFilterConfig(filter),
                                            !.scrollIndex = 0]
         v == OpenedView(heap, articles, position, filter)
         mv == markViewed(heap, articles, v.articles, v.currentIndex, now)
     IN /\ settings' = [settings EXCEPT !.currentFilter = filter]
        /\ browsePosition' = position
        /\ view' = v
        /\ heap' = mv.heap
        /\ articles' = mv.articles
        /\ presented' = presented \cup Shown(v, heap)
  /\ lastClose' = NoClose
  /\ modal' = ClosedModal
  /\ UNCHANGED <<now, statistics, lastFetch, pass, saving, results,
                 insertedBy, handedBy, fetchedOk, used, pure>>
  /\ savePluginData

\* the plugin with a filter that names no journal or the first one
InitModal ==
  /\ now = 1
  /\ \E j \in {<< >>, <<Journals[1].issn>>} :
       settings = [apiProvider |-> "openalex",
                   currentFilter |-> [DefaultFilter EXCEPT !.journals = j]]
  /\ heap = SyncedHeap
  /\ articles = <<1, 2, 3, 4>>
  /\ statistics = SyncedStatistics
  /\ lastFetch = 0
  /\ browsePosition = EmptyBrowsePosition
  /\ pass = [p \in {"command"} |-> IdlePass]
  /\ view = ClosedView
  /\ saving = << >>
  /\ results = << >>
  /\ insertedBy = [p \in {"command"} |-> {}]
  /\ handedBy = [p \in {"command"} |-> {}]
  /\ fetchedOk = [p \in {"command"} |-> << >>]
  /\ used = [passes |-> 0, clears |-> 0]
  /\ presented = {}
  /\ lastClose = NoClose
  /\ pure = << >>
  /\ modal = ClosedModal
  /\ disk = Memory
  /\ written = Memory

NextModal ==
  \/ OpenFilterModal
  \/ \E issn \in Range(EnabledIssns) : ToggleJournal(issn)
  \/ SelectAllJournals
  \/ SelectNoJournal
  \/ CloseFilterModal
  \/ ApplyFromModal
  \/ CloseBrowse

SpecModal == InitModal /\ [][NextModal]_vars

\* ------------------------------------------------------------------------
\* The browse modal with one save awaiting its note at a time
\* ------------------------------------------------------------------------
\* the counter values from which this specification lets a save or a skip
\* start
SmallCounts == {0, 1}

NextIndex ==
  \/ OpenBrowse
  \/ nextArticle
  \/ prevArticle
  \/ saving = << >> /\ statistics.totalSaved \in SmallCounts /\ saveArticle
  \/ \E i \in 1..MaxPending, ok \in BOOLEAN : saveArticleResume(i, ok, TRUE)
  \/ statistics.totalSkipped \in SmallCounts /\ skipArticle(TRUE)
  \/ CloseBrowse

SpecIndex == InitBrowse /\ [][NextIndex]_vars

\* ------------------------------------------------------------------------
\* The whole plugin: sync, both modals, the filter modal and the cache clear
\* ------------------------------------------------------------------------
\* the data of an earlier session: one article of the first journal, unseen
InitPlugin ==
  /\ now = 1
  /\ settings = [apiProvider |-> "openalex",
                 currentFilter |-> [DefaultFilter EXCEPT !.showState = "all"]]
  /\ heap = [r \in Refs |-> IF r = 1 THEN SyncedHeap[r] ELSE Free]
  /\ articles = <<1>>
  /\ statistics = LoadedStatistics("unseen")
  /\ lastFetch = 0
  /\ browsePosition = EmptyBrowsePosition
  /\ pass = [p \in {"command"} |-> IdlePass]
  /\ view = ClosedView
  /\ saving = << >>
  /\ results = << >>
  /\ insertedBy = [p \in {"command"} |-> {}]
  /\ handedBy = [p \in {"command"} |-> {}]
  /\ fetchedOk = [p \in {"command"} |-> << >>]
  /\ used = [passes |-> 0, clears |-> 0]
  /\ presented = {}
  /\ lastClose = NoClose
  /\ pure = << >>
  /\ modal = ClosedModal
  /\ disk = Memory
  /\ written = Memory

\* the page every journal answers with: one work without abstract
PluginResponses ==
  {[ok |-> TRUE, works |-> <<[doi |-> "d2", hasAbstract |-> FALSE]>>]}

\* no sync pass is between its start and its end
NoPassRunning == \A p \in DOMAIN pass : pass[p].pc \in {"idle", "done"}

\* no modal is open and no save awaits its note
NoModal == ~view.open /\ saving = << >>

\* One sync and one cache clear, started with the modals closed; a modal
\* opens when the sync has ended; one save awaits its note at a time.
NextPlugin ==
  \/ \E p \in DOMAIN pass : used.passes = 0 /\ NoModal /\ FetchStart(p)
  \/ \E p \in DOMAIN pass, response \in PluginResponses : FetchJournal(p, response, 0)
  \/ \E p \in DOMAIN pass : BackfillStep(p, "found")
  \/ \E p \in DOMAIN pass : FetchFinish(p)
  \/ used.clears = 0 /\ NoPassRunning /\ NoModal /\ ClearCache
  \/ NoPassRunning /\ OpenBrowse
  \/ nextArticle
  \/ prevArticle
  \/ saving = << >> /\ statistics.totalSaved \in SmallCounts /\ saveArticle
  \/ \E i \in 1..MaxPending : saveArticleResume(i, TRUE, TRUE)
  \/ statistics.totalSkipped \in SmallCounts /\ skipArticle(TRUE)
  \/ CloseBrowse
  \/ NoPassRunning /\ ApplyFilter("all", "date-desc")
  \/ NoPassRunning /\ performSearch("d1")
  \/ \E i \in 1..Len(results) :
       NoPassRunning /\ statistics.totalSaved \in SmallCounts /\ saveResult(i)

SpecPlugin == InitPlugin /\ [][NextPlugin]_vars

\* ------------------------------------------------------------------------
\* The filter engine, the fingerprint and the date-range helper on their own
\* ------------------------------------------------------------------------
\* the days 'today' is drawn from: 2025-11-08 and 2025-11-22
Todays == {311, 325}

\* filter configurations the FilterModal can hand to its Apply callback
FilterInputs ==
  {[DefaultFilter EXCEPT !.showState = "all",
                         !.dateRange = r,
                         !.customDateFrom = IF r = "custom" THEN 305 ELSE NoTime,
                         !.customDateTo = IF r = "custom" THEN 315 ELSE NoTime,
                         !.keywords = k] :
     r \in {"day", "month", "custom"},
     k \in {<< >>, <<TitleOf("d1")>>, <<toLowerCase(TitleOf("d1"))>>}}
  \cup
  {[DefaultFilter EXCEPT !.showState = "all", !.journals = j, !.keywords = k] :
     j \in {<<Journals[1].issn, Journals[2].issn>>,
            <<Journals[2].issn, Journals[1].issn>>},
     k \in {<<TitleOf("d1"), TitleOf("d2")>>, <<TitleOf("d2"), TitleOf("d1")>>}}

\* the article a sync built for an identifier
Fetched(doi) ==
  openAlexToArticle([doi |-> doi, hasAbstract |-> HasAbstract(doi)],
                    JournalOf(doi).name, JournalOf(doi).issn, 0)

\* Object.values(data.articles) of some collections
Collections ==
  {<< >>, <<Fetched("d1")>>, <<Fetched("d1"), Fetched("d2")>>,
   <<Fetched("d3"), Fetched("d1"), Fetched("d2")>>}

\* filter configurations that select by state, journal and keyword and
\* sort in each order; the keyword is the upper-case spelling of the
\* abstract of d1 and of the title of d2
ViewFilters ==
  {[DefaultFilter EXCEPT !.showState = st, !.journals = j, !.keywords = k,
                         !.searchInAbstracts = w, !.sortBy = o] :
     st \in {"all", "unseen", "saved"},
     j \in {<< >>, <<Journals[2].issn>>},
     k \in {<< >>, <<<<76, 73>>>>},
     w \in BOOLEAN,
     o \in {"date-desc", "date-asc", "journal"}}

\* an article of the collection in a later state, with topic keywords
Triaged(doi, st, kws) ==
  [Fetched(doi) EXCEPT !.state = st,
                       !.keywords = kws,
                       !.viewedAt = IF st = "unseen" THEN NoTime ELSE 1,
                       !.savedAt = IF st = "saved" THEN 1 ELSE NoTime,
                       !.savedPath = IF st = "saved" THEN PathOf(doi) ELSE NoPath]

\* collections with both journals, mixed states and equal dates
ViewCollections ==
  {<<Fetched("d3"), Triaged("d1", "saved", << >>), Fetched("d2"),
     Triaged("d4", "viewed", <<<<76, 105, 100>>>>)>>,
   <<Fetched("d1"), Triaged("d4", "saved", << >>), Fetched("d2"),
     Triaged("d3", "unseen", <<<<70>>, <<76, 105>>>>)>>}

\* the filter with the other setting of the 'search in abstracts' box
OtherScope(f) == [f EXCEPT !.searchInAbstracts = ~@]

\* enabled-journal sets
JournalSets == {EnabledIssns, <<Journals[1].issn>>}

NoRange == [from |-> NoTime, to |-> NoTime]

InitFilter ==
  /\ now = 1
  /\ settings = [apiProvider |-> "openalex", currentFilter |-> DefaultFilter]
  /\ heap = EmptyHeap
  /\ articles = << >>
  /\ statistics = EmptyStatistics
  /\ lastFetch = NoTime
  /\ browsePosition = EmptyBrowsePosition
  /\ pass = [p \in {"command"} |-> IdlePass]
  /\ view = ClosedView
  /\ saving = << >>
  /\ results = << >>
  /\ insertedBy = [p \in {"command"} |-> {}]
  /\ handedBy = [p \in {"command"} |-> {}]
  /\ fetchedOk = [p \in {"command"} |-> << >>]
  /\ used = [passes |-> 0, clears |-> 0]
  /\ presented = {}
  /\ lastClose = NoClose
  /\ \/ \E f1 \in FilterInputs, f2 \in FilterInputs, c \in Collections, t \in Todays :
          pure = [today |-> t, filter |-> f1, other |-> f2, given |-> <<f1, f2>>,
                  articles |-> c, allJournals |-> EnabledIssns,
                  range |-> NoRange, filtered |-> FALSE, list |-> << >>,
                  hashes |-> << >>]
     \/ \E f \in ViewFilters, c \in ViewCollections, j \in JournalSets :
          pure = [today |-> 311, filter |-> f, other |-> OtherScope(f),
                  given |-> <<f, OtherScope(f)>>,
                  articles |-> c, allJournals |-> j,
                  range |-> NoRange, filtered |-> FALSE, list |-> << >>,
                  hashes |-> << >>]
  /\ modal = ClosedModal
  /\ disk = Memory
  /\ written = Memory

\* getDateRange for the filter's date-range option
CallGetDateRange ==
  /\ pure.range = NoRange
  /\ pure' = [pure EXCEPT !.range = getDateRange(pure.filter.dateRange,
                                                 pure.filter.customDateFrom,
                                                 pure.filter.customDateTo,
                                                 pure.today)]
  /\ UNCHANGED <<now, heap, articles, statistics, lastFetch, browsePosition,
                 settings, pass, view, saving, results, insertedBy, handedBy,
                 fetchedOk, used, presented, lastClose, disk, written, modal>>

\* filterArticles for the collection under the filter
CallFilterArticles ==
  /\ ~pure.filtered
  /\ pure' = [pure EXCEPT !.filtered = TRUE,
                          !.list = filterArticles(pure.articles, pure.filter,
                                                  pure.allJournals)]
  /\ UNCHANGED <<now, heap, articles, statistics, lastFetch, browsePosition,
                 settings, pass, view, saving, results, insertedBy, handedBy,
                 fetchedOk, used, presented, lastClose, disk, written, modal>>

\* hashFilterConfig for the two filters, which sorts their arrays in place
CallHashFilterConfig ==
  /\ pure.hashes = << >>
  /\ pure' = [pure EXCEPT !.hashes = <<hashFilterConfig(pure.filter),
                                       hashFilterConfig(pure.other)>>,
                          !.filter = SortedInPlace(@),
                          !.other = SortedInPlace(@)]
  /\ UNCHANGED <<now, heap, articles, statistics, lastFetch, browsePosition,
                 settings, pass, view, saving, results, insertedBy, handedBy,
                 fetchedOk, used, presented, lastClose, disk, written, modal>>

NextFilter ==
  \/ CallGetDateRange
  \/ CallFilterArticles
  \/ CallHashFilterConfig

SpecFilter == InitFilter /\ [][NextFilter]_vars

\* ------------------------------------------------------------------------
\* The helpers of the OpenAlex adapter on their own
\* ------------------------------------------------------------------------
\* position tags an authorship can carry
PositionTags == {"first", "middle", "last", "corresponding"}

\* authorship lists of up to two authors named A, B in input order
AuthorInputs ==
  UNION {{[i \in 1..n |-> [display_name |-> <<64 + i>>, author_position |-> tags[i]]] :
            tags \in [1..n -> PositionTags]} : n \in 0..2}

Scored(name, score) == [display_name |-> name, score |-> score]

\* concept lists: none, empty, all below the threshold, mixed, and nine
\* above the threshold
ConceptInputs ==
  {Absent, Present(<< >>), Present(<<Scored(<<67>>, 2)>>),
   Present(<<Scored(<<67>>, 5), Scored(<<68>>, 2)>>),
   Present([i \in 1..9 |-> Scored(<<96 + i>>, 9)])}

TopicInputs == {Absent, Present(<<Scored(<<84>>, 5)>>), Present(<<Scored(<<84>>, 2)>>)}

KeywordInputs == {Absent, Present(<<<<75>>>>)}

\* inverted indexes: none, empty, and "a b a"
IndexInputs ==
  {Absent, Present(<< >>),
   Present(<<[word |-> <<98>>, positions |-> <<1>>],
             [word |-> <<97>>, positions |-> <<0, 2>>]>>)}

InitAdapter ==
  /\ now = 1
  /\ settings = [apiProvider |-> "openalex", currentFilter |-> DefaultFilter]
  /\ heap = EmptyHeap
  /\ articles = << >>
  /\ statistics = EmptyStatistics
  /\ lastFetch = NoTime
  /\ browsePosition = EmptyBrowsePosition
  /\ pass = [p \in {"command"} |-> IdlePass]
  /\ view = ClosedView
  /\ saving = << >>
  /\ results = << >>
  /\ insertedBy = [p \in {"command"} |-> {}]
  /\ handedBy = [p \in {"command"} |-> {}]
  /\ fetchedOk = [p \in {"command"} |-> << >>]
  /\ used = [passes |-> 0, clears |-> 0]
  /\ presented = {}
  /\ lastClose = NoClose
  /\ \E a \in AuthorInputs, c \in ConceptInputs, t \in TopicInputs,
        k \in KeywordInputs, x \in IndexInputs :
       pure = [authorships |-> a,
               work |-> [concepts |-> c, topics |-> t, keywords |-> k,
                         abstract_inverted_index |-> x],
               authors |-> Absent, keywords |-> Absent, abstract |-> Absent]
  /\ modal = ClosedModal
  /\ disk = Memory
  /\ written = Memory

\* authors: formatOpenAlexAuthors(work.authorships || [])
CallFormatAuthors ==
  /\ ~pure.authors.present
  /\ pure' = [pure EXCEPT !.authors = Present(formatOpenAlexAuthors(pure.authorships))]
  /\ UNCHANGED <<now, heap, articles, statistics, lastFetch, browsePosition,
                 settings, pass, view, saving, results, insertedBy, handedBy,
                 fetchedOk, used, presented, lastClose, disk, written, modal>>

\* the keywords openAlexToArticle gives the article
CallExtractKeywords ==
  /\ ~pure.keywords.present
  /\ pure' = [pure EXCEPT !.keywords = Present(ExtractKeywords(pure.work))]
  /\ UNCHANGED <<now, heap, articles, statistics, lastFetch, browsePosition,
                 settings, pass, view, saving, results, insertedBy, handedBy,
                 fetchedOk, used, presented, lastClose, disk, written, modal>>

\* abstract: reconstructAbstract(work.abstract_inverted_index)
CallReconstructAbstract ==
  /\ ~pure.abstract.present
  /\ pure' = [pure EXCEPT !.abstract =
                 Present(reconstructAbstract(pure.work.abstract_inverted_index))]
  /\ UNCHANGED <<now, heap, articles, statistics, lastFetch, browsePosition,
                 settings, pass, view, saving, results, insertedBy, handedBy,
                 fetchedOk, used, presented, lastClose, disk, written, modal>>

NextAdapter ==
  \/ CallFormatAuthors
  \/ CallExtractKeywords
  \/ CallReconstructAbstract

SpecAdapter == InitAdapter /\ [][NextAdapter]_vars

\* ------------------------------------------------------------------------
\* Properties of the sync engine
\* ------------------------------------------------------------------------
\* the fields of a stored record a re-fetch must not touch
Tracking(a) == <<a.state, a.fetchedAt, a.viewedAt, a.savedAt, a.savedPath>>

\* a step of some fetchArticles call
PassStep == pass' # pass

\* the enabled journals a pass has been through
Attempted(p) == [i \in 1..Len(fetchedOk[p]) |-> fetchedOk[p][i].issn]

\* a pass that has left its loop over the journals
PastLoop(p) == pass[p].pc \in {"backfill", "save", "done"}

\* the fetched counter of a journal, 0 while it has no entry
FetchedOf(stats, issn) ==
  IF issn \in DOMAIN stats.byJournal THEN stats.byJournal[issn].fetched ELSE 0

\* C1: a step of a sync pass leaves every article that is in the collection
\* in the collection, under the same key position, with the same state,
\* fetchedAt, viewedAt, savedAt and savedPath; what it adds are new keys.
C1_SyncKeepsKnownArticles ==
  [][PassStep =>
       /\ Len(articles') >= Len(articles)
       /\ \A i \in 1..Len(articles) :
            /\ heap'[articles'[i]].doi = heap[articles[i]].doi
            /\ Tracking(heap'[articles'[i]]) = Tracking(heap[articles[i]])
       /\ \A i \in (Len(articles) + 1)..Len(articles') :
            Lookup(heap, articles, heap'[articles'[i]].doi) = 0]_vars

\* C1 witness: a finished pass whose adapters returned only the identifier
\* that was already stored as saved, and inserted nothing
C1_Witness ==
  \E p \in DOMAIN pass :
    /\ pass[p].pc = "done"
    /\ pass[p].totalFetched > 0
    /\ pass[p].newArticleCount = 0
    /\ used.clears = 0
    /\ Len(articles) = 1
    /\ heap[articles[1]].state = "saved"
    /\ heap[articles[1]].savedPath = PathOf("d1")

\* C3: a pass that has left its loop has been through every enabled journal
\* in order, whatever requests failed; its new-article count is the number
\* of identifiers it inserted, all of them from journals that responded.
C3_FailedJournalDoesNotStopPass ==
  \A p \in DOMAIN pass :
    PastLoop(p) =>
      /\ Attempted(p) = EnabledIssns
      /\ pass[p].newArticleCount = Cardinality(insertedBy[p])
      /\ \A e \in insertedBy[p] :
           \E i \in 1..Len(fetchedOk[p]) :
             fetchedOk[p][i].issn = e.issn /\ fetchedOk[p][i].ok

\* C3 witness: a finished pass whose first request failed and whose second
\* request brought a new article
C3_Witness ==
  \E p \in DOMAIN pass :
    /\ pass[p].pc = "done"
    /\ ~fetchedOk[p][1].ok
    /\ fetchedOk[p][2].ok
    /\ pass[p].newArticleCount > 0

\* C4: a step of a pass raises each journal's fetched counter by the number
\* of identifiers the step inserted from that journal, and raises
\* totalFetched only when the pass leaves its loop, by the number of
\* identifiers the pass inserted; a step that inserts nothing leaves the
\* per-journal counters as they are.
C4_FetchedCountsNewArticles ==
  [][\A p \in DOMAIN pass :
       pass'[p] # pass[p] =>
         /\ \A j \in 1..Len(Journals) :
              FetchedOf(statistics', Journals[j].issn) =
                FetchedOf(statistics, Journals[j].issn)
                  + Cardinality({e \in insertedBy'[p] \ insertedBy[p] :
                                   e.issn = Journals[j].issn})
         /\ statistics'.totalFetched =
              statistics.totalFetched
                + (IF pass[p].pc = "fetch" /\ PastLoop(p)'
                     THEN Cardinality(insertedBy'[p]) ELSE 0)]_vars

\* C4 witness: a finished pass that inserted from both journals and was
\* also handed an identifier it did not insert
C4_Witness ==
  \E p \in DOMAIN pass :
    /\ pass[p].pc = "done"
    /\ statistics.totalFetched = 2
    /\ \A j \in 1..Len(EnabledJournals) :
         \E e \in insertedBy[p] : e.issn = EnabledJournals[j].issn
    /\ pass[p].totalFetched > pass[p].newArticleCount

\* C7: after a pass with the OpenAlex provider that inserted something,
\* every article it inserted without an abstract was handed to
\* backfillAbstracts.
C7_NewArticlesWithoutAbstractBackfilled ==
  \A p \in DOMAIN pass :
    (pass[p].pc \in {"save", "done"} /\ settings.apiProvider = "openalex"
       /\ pass[p].newArticleCount > 0) =>
      \A e \in insertedBy[p] : ~e.hasAbstract => e.doi \in handedBy[p]

\* the pending saves without the i-th
Without(s, i) == SubSeq(s, 1, i - 1) \o SubSeq(s, i + 1, Len(s))

\* C2: in the browse view a saved or skipped counter is incremented only
\* for an article that is not already in the target state, so that each
\* article contributes at most one increment: a step that raises totalSaved
\* resumes a save of an article that was not saved, and a step that raises
\* totalSkipped skips a card that was not skipped.
C2_CountersOncePerArticle ==
  [][/\ statistics'.totalSaved # statistics.totalSaved =>
          \E i \in 1..Len(saving) :
            /\ saving' = Without(saving, i)
            /\ heap[saving[i].article].state # "saved"
     /\ statistics'.totalSkipped # statistics.totalSkipped =>
          heap[view.articles[view.currentIndex + 1]].state # "skipped"]_vars

\* C5: once a handler of the browse view has finished, the article shown as
\* the current card is not in state unseen.
C5_CurrentCardNeverUnseen ==
  (view.open /\ view.currentIndex < Len(view.articles)) =>
    heap[view.articles[view.currentIndex + 1]].state # "unseen"

SavedOf(stats, issn) ==
  IF issn \in DOMAIN stats.byJournal THEN stats.byJournal[issn].saved ELSE 0

\* the sum of the per-journal saved counters
SavedSum(stats) ==
  LET sum[j \in 0..Len(Journals)] ==
        IF j = 0 THEN 0 ELSE sum[j - 1] + SavedOf(stats, Journals[j].issn)
  IN sum[Len(Journals)]

\* C6: after any sequence of saves, from the browse view or from the
\* discovery results, totalSaved equals the sum of the per-journal saved
\* counters.
C6_TotalSavedIsSumOfJournals ==
  statistics.totalSaved = SavedSum(statistics)

\* C8: when the browse view is reopened with the filter unchanged, the
\* article that was current at close is current again if it is still in
\* the view, otherwise the current card is the first article that followed
\* it in the previous view and is still in the view, and every article
\* before the cursor has been presented.
C8_ResumesWhereLeftOff ==
  [][(~view.open /\ view'.open /\ lastClose # NoClose /\ settings' = settings) =>
       LET prev == lastClose.articles
           k == lastClose.currentIndex + 1
           list == [i \in 1..Len(view'.articles) |-> heap'[view'.articles[i]].doi]
           cur == IF view'.currentIndex < Len(list)
                    THEN list[view'.currentIndex + 1] ELSE NoDoi
           followers == {i \in (k + 1)..Len(prev) : prev[i] \in Range(list)}
       IN /\ (k <= Len(prev) /\ prev[k] \in Range(list)) => cur = prev[k]
          /\ (k <= Len(prev) /\ prev[k] \notin Range(list) /\ followers # {}) =>
               cur = prev[CHOOSE i \in followers : \A j \in followers : i <= j]
          /\ \A i \in 1..view'.currentIndex :
               i <= Len(list) => list[i] \in presented]_vars

\* C9: the list filterArticles produces under a date-range option holds
\* only articles whose publication date lies inside the window getDateRange
\* gives for that option.
C9_DateRangeFilterWorks ==
  (pure.filtered /\ pure.range # NoRange) =>
    \A i \in 1..Len(pure.list) :
      /\ pure.range.from <= pure.list[i].date
      /\ pure.list[i].date <= pure.range.to

\* C10: two filter configurations for which filterArticles returns the
\* same ordered list on every collection and enabled-journal set have the
\* same fingerprint.
C10_EqualViewsEqualHash ==
  pure.hashes # << >> =>
    ((\A c \in Collections, j \in JournalSets :
        filterArticles(c, pure.filter, j) = filterArticles(c, pure.other, j))
       => pure.hashes[1] = pure.hashes[2])

\* s and t hold the same elements the same number of times
IsPermutation(s, t) ==
  /\ Len(s) = Len(t)
  /\ \A x \in Range(s) \cup Range(t) :
       Cardinality({i \in 1..Len(s) : s[i] = x})
         = Cardinality({i \in 1..Len(t) : t[i] = x})

\* f and g are equal except for the order of journals and of keywords
SamePermuted(f, g) ==
  /\ [f EXCEPT !.journals = << >>, !.keywords = << >>]
       = [g EXCEPT !.journals = << >>, !.keywords = << >>]
  /\ IsPermutation(f.journals, g.journals)
  /\ IsPermutation(f.keywords, g.keywords)

\* C11: two filter configurations that are equal except for a permutation
\* of journals and/or keywords get the same fingerprint from
\* hashFilterConfig.
C11_HashOrderIndependent ==
  (pure.hashes # << >> /\ SamePermuted(pure.given[1], pure.given[2])) =>
    pure.hashes[1] = pure.hashes[2]

\* C11 witness: both lists were handed over in different orders and the
\* fingerprints agree
C11_Witness ==
  /\ pure.hashes # << >>
  /\ SamePermuted(pure.given[1], pure.given[2])
  /\ pure.given[1].journals # pure.given[2].journals
  /\ pure.given[1].keywords # pure.given[2].keywords
  /\ pure.hashes[1] = pure.hashes[2]

\* C12: what the last persist wrote is enough for loadSettings and
\* loadPluginData to restore the settings and the data that were in memory
\* when it was written.
C12_PersistRestoresMemory ==
  /\ loadSettings(disk) = written.settings
  /\ loadPluginData(disk) = written.data

\* C13: a step of the open browse view whose persist did not reach the
\* store leaves the counters and every article's state, savedAt and
\* savedPath as they were before the step.
C13_FailedPersistNotCommitted ==
  [][(view.open /\ disk' = disk) =>
       /\ statistics' = statistics
       /\ \A r \in Refs :
            (heap[r] # Free /\ heap'[r] # Free) =>
              /\ heap'[r].state = heap[r].state
              /\ heap'[r].savedAt = heap[r].savedAt
              /\ heap'[r].savedPath = heap[r].savedPath]_vars

\* the case-normalized identifier without scheme prefix
Canonical(doi) == IF doi \in Spellings THEN "d1" ELSE doi

\* C14: every identifier stored in the collection is case-normalized and
\* carries no scheme prefix, and the collection holds one article for
\* upstream records whose DOIs differ only in case or resolver prefix.
C14_IdentifiersCanonical ==
  /\ \A i \in 1..Len(articles) :
       heap[articles[i]].doi = Canonical(heap[articles[i]].doi)
  /\ \A i, j \in 1..Len(articles) :
       Canonical(heap[articles[i]].doi) = Canonical(heap[articles[j]].doi) => i = j

\* the step of the 'Clear article cache' button
ClearStep == used'.clears # used.clears

\* no counter of new is below its value in old
NotLess(old, new) ==
  /\ new.totalFetched >= old.totalFetched
  /\ new.totalSaved >= old.totalSaved
  /\ new.totalSkipped >= old.totalSkipped
  /\ \A k \in DOMAIN old.byJournal :
       /\ k \in DOMAIN new.byJournal
       /\ new.byJournal[k].fetched >= old.byJournal[k].fetched
       /\ new.byJournal[k].saved >= old.byJournal[k].saved
       /\ new.byJournal[k].skipped >= old.byJournal[k].skipped

\* C15: no step other than the cache clear decreases a counter: the three
\* totals and every journal's fetched, saved and skipped counters keep or
\* raise their values across sync, mark viewed, save, skip, discovery save
\* and filter apply.
C15_CountersNeverDecrease ==
  [][ClearStep \/ NotLess(statistics, statistics')]_vars

\* a sync, a save, a skip, a discovery save and a filter apply have all
\* counted, and nothing was cleared
C15_Witness ==
  /\ used.clears = 0
  /\ used.passes = 1
  /\ statistics.totalFetched = 2
  /\ statistics.totalSaved = 2
  /\ statistics.totalSkipped >= 1
  /\ Journals[1].issn \in DOMAIN statistics.byJournal
  /\ statistics.byJournal[Journals[1].issn].saved >= 1
  /\ statistics.byJournal[Journals[1].issn].skipped >= 1
  /\ browsePosition.filterHash # << >>
  /\ \E i \in 1..Len(results) : ~results[i].button

\* the keys of data.articles
Keys(h, arts) == {h[arts[i]].doi : i \in 1..Len(arts)}

\* C16: an article that is in the collection stays in it: every step other
\* than the cache clear keeps every key of the collection.
C16_ArticlesNeverRemoved ==
  [][ClearStep \/ Keys(heap, articles) \subseteq Keys(heap', articles')]_vars

\* the loaded article and the synced one are both there after a skip and a
\* discovery save that stored its own object under the loaded key
C16_Witness ==
  /\ used.clears = 0
  /\ Keys(heap, articles) = {"d1", "d2"}
  /\ statistics.totalSkipped >= 1
  /\ \E i \in 1..Len(results) :
       /\ ~results[i].button
       /\ results[i].article \in Range(articles)

\* a step that opens the browse modal or moves it to another card
NavStep == view'.open /\ view' # view /\ statistics' = statistics

\* C17: opening the modal and moving to the next or previous card change
\* no article that is not unseen: a saved or skipped (or viewed) article
\* keeps its state, viewedAt, savedAt and savedPath.
C17_NavigationKeepsTriaged ==
  [][NavStep =>
       \A r \in Refs :
         (heap[r] # Free /\ heap[r].state # "unseen") => heap'[r] = heap[r]]_vars

\* the modal went back to a card that was skipped
C17_Witness ==
  /\ view.open
  /\ Len(view.articles) >= 2
  /\ view.currentIndex = 0
  /\ heap[view.articles[1]].state = "skipped"

\* the filter as the caller gave it, and how often a occurs in the list
Given == pure.given[1]
Occurrences(list, a) == Cardinality({i \in 1..Len(list) : list[i] = a})

\* the state condition and the journal condition of the filter f
StateCondition(a, f) == f.showState = "all" \/ a.state = f.showState
JournalCondition(a, f, enabled) ==
  IF f.journals # << >> THEN \E i \in 1..Len(f.journals) : f.journals[i] = a.journalIssn
  ELSE \E i \in 1..Len(enabled) : enabled[i] = a.journalIssn

\* a keyword of f occurs, whatever its case, in the title (title-only
\* scope) or in the title, the abstract or the keywords joined by blanks
KeywordCondition(a, f) ==
  LET text == IF f.searchInAbstracts
                THEN a.title \o <<32>>
                       \o (IF a.abstract = NoStr THEN << >> ELSE a.abstract)
                       \o <<32>> \o join(a.keywords, <<32>>)
                ELSE a.title
  IN \E i \in 1..Len(f.keywords) :
       includes(toLowerCase(text), toLowerCase(f.keywords[i]))

\* C18: every article filterArticles returns has the state the filter shows
\* (or the filter shows all) and a journal of the effective journal set, the
\* filter's journals when it names any and the enabled journals otherwise;
\* every article of the collection that meets these conditions and the
\* keyword condition is in the result exactly once.
C18_StateAndJournalFilter ==
  pure.filtered =>
    /\ \A i \in 1..Len(pure.list) :
         /\ StateCondition(pure.list[i], Given)
         /\ JournalCondition(pure.list[i], Given, pure.allJournals)
    /\ \A k \in 1..Len(pure.articles) :
         LET a == pure.articles[k]
         IN (/\ StateCondition(a, Given)
             /\ JournalCondition(a, Given, pure.allJournals)
             /\ (Given.keywords # << >> => KeywordCondition(a, Given)))
              => Occurrences(pure.list, a) = 1

\* the filter names one journal while both are enabled; an unseen article of
\* that journal is returned and one of the other journal is dropped
C18_Witness ==
  /\ pure.filtered
  /\ Given.journals = <<Journals[2].issn>>
  /\ Given.showState = "unseen"
  /\ pure.allJournals = EnabledIssns
  /\ \E i \in 1..Len(pure.list) : pure.list[i].doi = "d3"
  /\ \E k \in 1..Len(pure.articles) :
       /\ pure.articles[k].state = "unseen"
       /\ pure.articles[k].journalIssn = Journals[1].issn
       /\ Occurrences(pure.list, pure.articles[k]) = 0
  /\ \E k \in 1..Len(pure.articles) :
       /\ pure.articles[k].state = "saved"
       /\ pure.articles[k].journalIssn = Journals[2].issn
       /\ Occurrences(pure.list, pure.articles[k]) = 0

\* C19: with keywords, an article that passes the state and journal
\* filters is returned exactly when a keyword occurs, whatever its case, in
\* its search text: the title alone when searchInAbstracts is false, else
\* title, abstract and keywords.
C19_KeywordFilter ==
  (pure.filtered /\ Given.keywords # << >>) =>
    \A k \in 1..Len(pure.articles) :
      LET a == pure.articles[k]
      IN (StateCondition(a, Given) /\ JournalCondition(a, Given, pure.allJournals))
           => (Occurrences(pure.list, a) > 0 <=> KeywordCondition(a, Given))

\* the keyword occurs in the abstract only
AbstractOnly(a, f) ==
  /\ a.abstract # NoStr
  /\ \E i \in 1..Len(f.keywords) :
       /\ includes(toLowerCase(a.abstract), toLowerCase(f.keywords[i]))
       /\ ~includes(toLowerCase(a.title), toLowerCase(f.keywords[i]))

\* the wider scope returned an article that has the keyword, spelled in
\* another case, in its abstract only
C19_Witness ==
  /\ pure.filtered
  /\ Given.keywords # << >>
  /\ Given.searchInAbstracts
  /\ \E i \in 1..Len(pure.list) : AbstractOnly(pure.list[i], Given)
  /\ \E k \in 1..Len(pure.articles) :
       /\ StateCondition(pure.articles[k], Given)
       /\ JournalCondition(pure.articles[k], Given, pure.allJournals)
       /\ Occurrences(pure.list, pure.articles[k]) = 0

\* the place of a in the collection
PlaceOf(a) == CHOOSE k \in 1..Len(pure.articles) : pure.articles[k] = a

\* a may stand in front of b under the sort key, and their keys are equal
InOrder(order, a, b) ==
  CASE order = "date-desc" -> a.date >= b.date
    [] order = "date-asc" -> a.date <= b.date
    [] order = "journal" -> a.journal = b.journal \/ StrLess(a.journal, b.journal)
EqualKeys(order, a, b) ==
  IF order = "journal" THEN a.journal = b.journal ELSE a.date = b.date

\* C20: the returned list is ordered by the sort key (date descending,
\* date ascending, journal name ascending), and articles with equal keys
\* keep the order they have in the collection.
C20_SortedAndStable ==
  pure.filtered =>
    \A i, j \in 1..Len(pure.list) :
      i < j =>
        /\ InOrder(Given.sortBy, pure.list[i], pure.list[j])
        /\ EqualKeys(Given.sortBy, pure.list[i], pure.list[j])
             => PlaceOf(pure.list[i]) < PlaceOf(pure.list[j])

\* a sort that moved an article forward and kept two articles of equal
\* keys in their order
C20_Witness ==
  /\ pure.filtered
  /\ Given.sortBy = "date-asc"
  /\ \E i, j \in 1..Len(pure.list) :
       /\ i < j
       /\ PlaceOf(pure.list[i]) > PlaceOf(pure.list[j])
  /\ \E i, j \in 1..Len(pure.list) :
       /\ i < j
       /\ EqualKeys(Given.sortBy, pure.list[i], pure.list[j])

\* the places in data.articles of the articles of a batch
PlacesOf(h, arts, batch) ==
  [i \in 1..Len(batch) |->
     CHOOSE k \in 1..Len(arts) : arts[k] = batch[i]]

\* C21: backfillAbstracts looks up the articles that lack an abstract, one
\* per step and in input order; a lookup that fails or finds nothing
\* leaves the article without abstract and the batch goes on with the next
\* article; the count rises exactly when the lookup set an abstract.
C21_BackfillOneByOne ==
  [][\A p \in DOMAIN pass :
       /\ (pass[p].pc = "fetch" /\ pass'[p].pc = "backfill") =>
            LET batch == pass'[p].missing
                places == PlacesOf(heap', articles', batch)
            IN /\ pass'[p].bfIdx = 1
               /\ pass'[p].filled = 0
               /\ \A i \in 1..Len(batch) : heap'[batch[i]].abstract = NoStr
               /\ \A i, j \in 1..Len(batch) : i < j => places[i] < places[j]
       /\ (pass[p].pc = "backfill" /\ pass'[p] # pass[p]) =>
            LET me == pass[p]
                r == me.missing[me.bfIdx]
            IN /\ heap[r].abstract = NoStr
               /\ pass'[p].bfIdx = me.bfIdx + 1
               /\ pass'[p].pc = IF me.bfIdx < Len(me.missing) THEN "backfill"
                                ELSE "save"
               /\ me.bfIdx < Len(me.missing) => pass'[p].missing = me.missing
               /\ heap'[r] # Free =>
                    pass'[p].filled = me.filled
                      + (IF heap'[r].abstract # NoStr THEN 1 ELSE 0)
               /\ \A q \in Refs \ {r} : heap'[q] \in {heap[q], Free}]_vars

\* the first lookup of a batch of two left its article without abstract
\* and the second one set the abstract of its article
C21_Witness ==
  \E p \in DOMAIN pass :
    /\ pass[p].pc = "save"
    /\ pass[p].bfIdx = 3
    /\ pass[p].filled = 1
    /\ \E i, j \in 1..Len(articles) :
         /\ i < j
         /\ heap[articles[i]].doi \in handedBy[p]
         /\ heap[articles[j]].doi \in handedBy[p]
         /\ heap[articles[i]].abstract = NoStr
         /\ heap[articles[j]].abstract # NoStr

\* the tag of the author with this name
TagOf(name) ==
  LET i == CHOOSE k \in 1..Len(pure.authorships) :
             pure.authorships[k].display_name = name
  IN pure.authorships[i].author_position

\* the level of a tag: first, then middle and unknown tags, then last
Level(tag) == CASE tag = "first" -> 0 [] tag = "last" -> 2 [] OTHER -> 1

\* C22: in the list formatOpenAlexAuthors returns, an author tagged
\* 'first' stands in front of every author tagged 'middle' or with an
\* unknown tag, and an author tagged 'last' stands behind them.
C22_AuthorsOrderedByPosition ==
  pure.authors.present =>
    \A i, j \in 1..Len(pure.authors.value) :
      i < j => Level(TagOf(pure.authors.value[i])) <= Level(TagOf(pure.authors.value[j]))

\* C23: a work whose concepts are present but none scores above 0.3
\* gets the names of its topics scoring above 0.3 as keywords.
C23_KeywordsFallBackToTopics ==
  (/\ pure.keywords.present
   /\ pure.work.concepts.present
   /\ TopNames(pure.work.concepts.value) = << >>
   /\ pure.work.topics.present)
    => pure.keywords.value = TopNames(pure.work.topics.value)

\* C24: reconstructAbstract returns no value for an absent inverted index
\* and for an index without words.
C24_EmptyIndexGivesNoAbstract ==
  (/\ pure.abstract.present
   /\ \/ ~pure.work.abstract_inverted_index.present
      \/ pure.work.abstract_inverted_index.value = << >>)
    => pure.abstract.value = NoStr

\* the sum of the per-journal fetched counters
FetchedSum(stats) ==
  LET sum[j \in 0..Len(Journals)] ==
        IF j = 0 THEN 0 ELSE sum[j - 1] + FetchedOf(stats, Journals[j].issn)
  IN sum[Len(Journals)]

\* the identifiers a pass has inserted
DoisOf(ins) == {x.doi : x \in ins}

\* C25: however the steps of two sync passes interleave, no identifier is
\* in the collection twice, the passes insert different identifiers, every
\* inserted identifier raises the journal counters by one, and a pass adds
\* to totalFetched the number of identifiers it inserted.
C25_OverlappingPassesInsertOnce ==
  [][/\ Len(articles') = Cardinality(Keys(heap', articles'))
     /\ \A p, q \in DOMAIN pass :
          p # q => DoisOf(insertedBy'[p]) \cap DoisOf(insertedBy'[q]) = {}
     /\ \A p \in DOMAIN pass :
          (pass[p].pc = "fetch" /\ pass'[p] # pass[p]) =>
            LET new == Keys(heap', articles') \ Keys(heap, articles)
            IN /\ DoisOf(insertedBy'[p]) = DoisOf(insertedBy[p]) \cup new
               /\ DoisOf(insertedBy[p]) \cap new = {}
               /\ FetchedSum(statistics') = FetchedSum(statistics) + Cardinality(new)
               /\ statistics'.totalFetched = statistics.totalFetched
                    + (IF pass'[p].pc = "fetch" THEN 0
                       ELSE Cardinality(insertedBy'[p]))]_vars

\* both passes await a request, the command's pass has received an
\* article that the startup pass inserted, and inserted none itself
C25_Witness ==
  /\ pass["startup"].pc = "fetch"
  /\ pass["command"].pc = "fetch"
  /\ insertedBy["startup"] # {}
  /\ pass["command"].totalFetched > 0
  /\ insertedBy["command"] = {}
  /\ DoisOf(insertedBy["startup"]) \subseteq Keys(heap, articles)

\* C26: in unseen-only mode, whatever the user does while a save awaits
\* the note writer, the entry a handler removes from the in-view list is an
\* article that was saved or skipped, and the list holds no saved or
\* skipped article afterwards.
C26_PendingSaveRemovesSavedArticle ==
  [][(view.open /\ view'.open /\ settings.currentFilter.showState = "unseen") =>
       /\ \A r \in Range(view.articles) \ Range(view'.articles) :
            heap'[r] # Free /\ heap'[r].state \in {"saved", "skipped"}
       /\ \A r \in Range(view'.articles) :
            heap'[r].state \notin {"saved", "skipped"}]_vars

\* every field that hashFilterConfig serialises has the same value in f and g
HashedFieldsAgree(f, g) ==
  /\ f.dateRange = g.dateRange
  /\ f.customDateFrom = g.customDateFrom
  /\ f.customDateTo = g.customDateTo
  /\ SortBy(f.journals, "code-units") = SortBy(g.journals, "code-units")
  /\ SortBy(f.keywords, "code-units") = SortBy(g.keywords, "code-units")
  /\ f.showState = g.showState
  /\ f.sortBy = g.sortBy

\* C27: two filter configurations that have the same fingerprint because
\* every hashed field agrees select the same list from every collection
\* and enabled-journal set.
C27_EqualHashEqualView ==
  (/\ pure.hashes # << >>
   /\ pure.hashes[1] = pure.hashes[2]
   /\ HashedFieldsAgree(pure.given[1], pure.given[2]))
    => \A c \in Collections \cup ViewCollections, j \in JournalSets :
         filterArticles(c, pure.given[1], j) = filterArticles(c, pure.given[2], j)

\* the step of the Apply button: the modal closes and the browse view opens
ApplyStep == modal.open /\ ~modal'.open /\ view'.open

\* C28: settings.currentFilter, the contents of its journals list
\* included, changes only in the step of the Apply button; ticking journal
\* boxes and closing the modal leave it as it was.
C28_FilterChangesOnlyOnApply ==
  [][ApplyStep \/ settings'.currentFilter = settings.currentFilter]_vars

\* C29: whenever no sync pass is between its start and its end,
\* totalFetched is the sum of the journals' fetched counters.
C29_TotalFetchedIsSumOfJournals ==
  NoPassRunning => statistics.totalFetched = FetchedSum(statistics)

\* index is at least 0 and, for a list that is not empty, below its length
InBounds(index, list) == index >= 0 /\ (Len(list) > 0 => index < Len(list))

\* C30: after the constructor and after every handler of the browse view,
\* currentIndex is at least 0 and below the length of a non-empty in-view
\* list, and a scrollIndex that a handler writes to browsePosition is
\* within the same bounds of the list it was taken from.
C30_IndexInBounds ==
  [][/\ view'.open => InBounds(view'.currentIndex, view'.articles)
     /\ browsePosition'.scrollIndex # browsePosition.scrollIndex =>
          InBounds(browsePosition'.scrollIndex,
                   IF view'.open THEN view'.articles ELSE view.articles)]_vars

\* in unseen-only mode the last card of the list was saved or skipped and
\* the index moved back to the card in front of it
C30_Witness ==
  LET full == ViewList(SyncedHeap, <<1, 2, 3, 4>>,
                       [DefaultFilter EXCEPT !.showState = "unseen"])
  IN /\ view.open
     /\ settings.currentFilter.showState = "unseen"
     /\ view.articles = SubSeq(full, 1, 3)
     /\ view.currentIndex = 2
     /\ heap[full[4]].state \in {"saved", "skipped"}

====
